---- MODULE Spec2Model ----
(***************************************************************************)
(* Model of the resilient API client of mentor-mcp-server: the token       *)
(* bucket RateLimiter, the retry loop retryWithExponentialBackoff and      *)
(* makeApiCall, for the OpenAI-SDK based clients (OpenRouterClient and     *)
(* the SDK based DeepseekClient, which share the same code) and for the    *)
(* axios based DeepseekClient with its response interceptor; sanitizeInput *)
(* and the message list of a call; the five tool handlers and the request *)
(* handler and shutdown of MentorServer on top of the client.             *)
(***************************************************************************)
EXTENDS Integers, Sequences, FiniteSets, TLC

VARIABLES
    variant,      \* which version the client modules have and which client
                  \* is followed: "openai", "chat", "axios", "reasoner"
    maxTokens,    \* RateLimiter.maxTokens
    refillRate,   \* RateLimiter.refillRate (tokens per second)
    tokens,       \* per client: RateLimiter.tokens
    lastRefill,   \* per client: RateLimiter.lastRefill (a Date.now() reading, ms)
    maxRetries,   \* config.api.maxRetries
    calls,        \* per makeApiCall invocation: position, locals, result
    tryCount,     \* history: tryConsume invocations so far (saturating)
    recording,    \* whether the limiter history below is kept (fixed at start)
    hist,         \* history of the limiter: what its tryConsume calls did
    requests,     \* the argument lists callers pass to makeApiCall (fixed at start)
    server,       \* MentorServer: isShuttingDown and the state of the process
    tools,        \* per tool invocation: position of the handler, its response
    utilCall      \* a call of a function of utils/prompt.ts: arguments, outcome

vars == <<variant, maxTokens, refillRate, tokens, lastRefill, maxRetries,
          calls, tryCount, recording, hist, requests, server, tools,
          utilCall>>

limiterVars == <<tokens, lastRefill>>
configVars == <<variant, maxTokens, refillRate, maxRetries>>
\* what no action of the client, the tools and the server changes
fixedVars == <<configVars, recording, requests, utilCall>>
serverVars == <<server, tools>>

---------------------------------------------------------------------------
(* Bounds of the model *)

\* largest config.api.maxRetries explored
MaxRetriesBound == 4
\* tryConsume invocations are counted up to this many
MaxTryCount == 2
\* admitted tryConsume invocations are counted up to this many
MaxAdmitted == 4
\* checkRateLimit is followed while the bucket holds at least this many
\* tokens below zero (a clock set back takes tokens away)
MaxDebt == 10

\* the invocations of makeApiCall that may be in flight at the same time; a
\* slot whose invocation has completed is free for the next invocation
Calls == {"c1", "c2"}
\* the versions of the client modules and, where one client object is
\* followed on its own, which one. "openai": OpenRouterClient and the
\* DeepseekClient on the SDK (model deepseek-chat), the former followed;
\* "chat": the same modules, the DeepseekClient followed; "axios":
\* OpenRouterClient and the DeepseekClient on axios, the latter followed;
\* "reasoner": the DeepseekClient on the SDK with the model
\* deepseek-reasoner behind both modules (api/openrouter/index.js, which
\* names what makeApiCall of second_opinion is, is not at hand)
Variants == {"openai", "chat", "axios", "reasoner"}
\* the versions that differ in their modules
Versions == Variants \ {"chat"}
\* the client singletons, each with a RateLimiter of its own: openRouterClient
\* (api/openrouter) and deepseekClient (api/deepseek)
Clients == {"openrouter", "deepseek"}
\* the class of a client: "openai" is OpenRouterClient, "chat" the
\* DeepseekClient on the SDK with the model deepseek-chat, "axios" the
\* DeepseekClient on axios, "reasoner" the DeepseekClient on the SDK with
\* the model deepseek-reasoner
VariantOf(cl) ==
    IF variant = "reasoner" THEN "reasoner"
    ELSE IF cl = "openrouter" THEN "openai"
    ELSE IF variant = "axios" THEN "axios"
    ELSE "chat"
\* the classes whose makeApiCall has the parameter previousMessages
TakesPreviousMessages(v) == v \in {"openai", "reasoner"}
\* where one client object is followed on its own, that object
ClientUnderStudy ==
    IF variant \in {"axios", "chat"} THEN "deepseek" ELSE "openrouter"
\* <<maxTokens, refillRate>> pairs given to new RateLimiter(maxTokens, refillRate)
LimiterConfigs == {<<1, 0>>, <<2, 10>>}
\* values Date.now() may return (ms); the wall clock is not monotonic
ClockReadings == {0, 100, 1000}
\* by how much Date.now() reads more than at the previous call while time
\* advances (ms)
ClockGaps == {100, 900, 1000}
\* tryConsume uses its readings only through now - lastRefill: where time
\* advances for ever, lastRefill is kept as a reading within this cycle (ms)
ClockCycle == 1000

\* baseDelay default of retryWithExponentialBackoff
BaseDelay == 1000

\* longest prompt explored, in characters
MaxPromptLen == 3
\* longest template given to fillPromptTemplate, in characters
MaxTemplateLen == 6
\* longest text given to sanitizeInput and to truncatePrompt, in characters
MaxTextLen == 5
\* longest value of the environment variable DEEPSEEK_MAX_RETRIES, in characters
MaxEnvLen == 2
\* the characters of the values of DEEPSEEK_MAX_RETRIES
EnvChars == {"0", "1", "3", "-", "x", " "}
\* the modules that build config.api: src/config.ts and its variant without
\* validation
Loaders == {"config.ts", "part_001"}
\* strings are sequences of characters; the grave accent (U+0060), which
\* cannot be written inside a string here, is the character named Backtick
Backtick == "U+0060"
\* the characters prompts are made of
Chars == {Backtick, "{", "}", " ", "a"}
Whitespace == {" ", "\n"}
Texts(n) == UNION { [1..k -> Chars] : k \in 0..n }
\* the characters templates are made of
TemplateChars == {"{", "}", "a", "b"}
\* the characters the prompts given to truncatePrompt are made of
ProseChars == {".", "?", " ", "\n", "a"}
\* the strings of at most n characters of the set chars
Strings(chars, n) == UNION { [1..k -> chars] : k \in 0..n }

---------------------------------------------------------------------------
(* Values *)

Min(a, b) == IF a <= b THEN a ELSE b

RECURSIVE Pow2(_)
Pow2(n) == IF n <= 0 THEN 1 ELSE 2 * Pow2(n - 1)

NoError == [cls |-> "null", status |-> 0, message |-> ""]
NoEvent == [kind |-> "none", status |-> 0, body |-> ""]

RateLimitMessage == "Rate limit exceeded. Please try again later."
UnknownErrorMessage == "Unknown error occurred"
UNDEFINED == "<undefined>"

\* What the network can do to one request.
\*   ok:      a 2xx response whose body has the given shape
\*   http:    a non-2xx response with a status and an error body message
\*   timeout, refused: no response received
\*   setup:   the request could not be set up (axios only)
OkEvents ==
    { [kind |-> "ok", status |-> 200, body |-> b] :
        b \in {"content", "emptychoices", "nochoices", "nocontent"} }
HttpEvents ==
    { [kind |-> "http", status |-> 401, body |-> "Invalid key"],
      [kind |-> "http", status |-> 429, body |-> "Too many requests"],
      [kind |-> "http", status |-> 429, body |-> ""],
      [kind |-> "http", status |-> 500, body |-> "Internal error"],
      [kind |-> "http", status |-> 503, body |-> "Unavailable"] }
NoResponseEvents ==
    { [kind |-> "timeout", status |-> 0, body |-> "timeout of 30000ms exceeded"],
      [kind |-> "refused", status |-> 0, body |-> "connect ECONNREFUSED"] }
SetupEvents ==
    { [kind |-> "setup", status |-> 0, body |-> "Invalid URL"] }
\* 2xx responses whose message carries reasoning_content 'r', with content
\* 'Hello' (reasoned) or without content (reasoningonly); explored for the
\* client that reads it
ReasoningEvents ==
    { [kind |-> "ok", status |-> 200, body |-> b] :
        b \in {"reasoned", "reasoningonly"} }

TransportEvents(v) ==
    OkEvents \cup HttpEvents \cup NoResponseEvents
        \cup (IF v = "axios" THEN SetupEvents ELSE {})
        \cup (IF v = "reasoner" THEN ReasoningEvents ELSE {})

StatusText(s) ==
    CASE s = 401 -> "401"
      [] s = 429 -> "429"
      [] s = 500 -> "500"
      [] s = 503 -> "503"
      [] OTHER -> "0"

---------------------------------------------------------------------------
(* RateLimiter *)

\* refillTokens: the token count after the refill at clock reading now
MutRefillTokensPerCentisecond(t, last, now) ==
    Min(maxTokens, t + (((now - last) * refillRate) \div 100))

MutRefillTokensNever(t, last, now) == Min(maxTokens, t)

RefillTokens(t, last, now) ==
    Min(maxTokens, t + (((now - last) * refillRate) \div 1000))

\* tryConsume: the returned boolean
MutTryConsumeResultNonNegative(t, last, now) == RefillTokens(t, last, now) >= 0

TryConsumeResult(t, last, now) == RefillTokens(t, last, now) >= 1

\* tryConsume: the token count it leaves
MutTryConsumeTokensAlwaysDecrement(t, last, now) == RefillTokens(t, last, now) - 1

MutTryConsumeTokensNoDecrement(t, last, now) == RefillTokens(t, last, now)

TryConsumeTokens(t, last, now) ==
    IF RefillTokens(t, last, now) >= 1
    THEN RefillTokens(t, last, now) - 1
    ELSE RefillTokens(t, last, now)

\* History of the limiter, kept while recording:
\*   created      the Date.now() reading the constructor stored
\*   maxReading   the latest time any reading has shown
\*   admitted     number of tryConsume calls answered true (saturating)
\*   answer       what the latest tryConsume returned
\*   emptyBefore  whether the bucket was empty when the reading last changed
\*   gap          by how much the reading last changed (ms)
\*   burst        admissions since the reading last changed
\*   close        whether every tryConsume so far came less than
\*                1/refillRate seconds after the previous reading
InitHist(created) ==
    [created |-> created, maxReading |-> created, admitted |-> 0,
     answer |-> "none", emptyBefore |-> FALSE, gap |-> 0, burst |-> 0,
     close |-> TRUE]

RecordTryConsume(h, t, last, now) ==
    LET ok == TryConsumeResult(t, last, now)
        one == IF ok THEN 1 ELSE 0
    IN [h EXCEPT
          !.maxReading = IF now > @ THEN now ELSE @,
          !.admitted = Min(@ + one, MaxAdmitted),
          !.answer = IF ok THEN "yes" ELSE "no",
          !.emptyBefore = IF now # last THEN t = 0 ELSE @,
          !.gap = IF now # last THEN now - last ELSE @,
          !.burst = IF now # last THEN one ELSE @ + one,
          !.close = @ /\ ((now - last) * refillRate < 1000)]

---------------------------------------------------------------------------
(* Errors the operation rejects with *)

\* The error the OpenAI SDK rejects with: an OpenAI.APIError (or subclass)
\* carrying the HTTP status, or no status for connection errors.
SdkError(te) ==
    CASE te.kind = "http" ->
           [cls |-> "APIError", status |-> te.status,
            message |-> IF te.body = ""
                        THEN StatusText(te.status) \o " status code (no body)"
                        ELSE StatusText(te.status) \o " " \o te.body]
      [] te.kind = "timeout" ->
           [cls |-> "APIError", status |-> 0, message |-> "Request timed out."]
      [] OTHER ->
           [cls |-> "APIError", status |-> 0, message |-> "Connection error."]

\* axios interceptor handleApiError: every rejected response is replaced by
\* a plain Error with a fixed message
MutHandleApiErrorSameMessage(te) ==
    IF te.kind = "http"
    THEN [cls |-> "Error", status |-> 0,
          message |-> "Deepseek API server error. Please try again later."]
    ELSE [cls |-> "Error", status |-> 0,
          message |-> "Deepseek API server error. Please try again later."]

HandleApiError(te) ==
    IF te.kind = "http"
    THEN CASE te.status = 401 ->
                [cls |-> "Error", status |-> 0,
                 message |-> "Authentication failed: Invalid API key"]
           [] te.status = 429 ->
                [cls |-> "Error", status |-> 0, message |-> RateLimitMessage]
           [] te.status = 500 ->
                [cls |-> "Error", status |-> 0,
                 message |-> "Deepseek API server error. Please try again later."]
           [] OTHER ->
                [cls |-> "Error", status |-> 0,
                 message |-> "API error: " \o
                    (IF te.body # "" THEN te.body
                     ELSE "Request failed with status code " \o StatusText(te.status))]
    ELSE IF te.kind \in {"timeout", "refused"}
    THEN [cls |-> "Error", status |-> 0,
          message |-> "No response received from Deepseek API"]
    ELSE [cls |-> "Error", status |-> 0,
          message |-> "Error setting up request: " \o te.body]

\* what the awaited operation() rejects with, per client
OperationError(v, te) ==
    IF v = "axios" THEN HandleApiError(te) ELSE SdkError(te)

TypeErrorOf(what) ==
    [cls |-> "TypeError", status |-> 0,
     message |-> "Cannot read properties of undefined (reading '" \o what \o "')"]

---------------------------------------------------------------------------
(* sanitizeInput and the message list of makeApiCall *)

\* the first .replace: every run of three backticks, non-overlapping and
\* left to right, becomes three times backslash backtick
RECURSIVE ReplaceCodeFences(_)
ReplaceCodeFences(s) ==
    IF Len(s) >= 3 /\ s[1] = Backtick /\ s[2] = Backtick /\ s[3] = Backtick
    THEN <<"\\", Backtick, "\\", Backtick, "\\", Backtick>>
             \o ReplaceCodeFences(SubSeq(s, 4, Len(s)))
    ELSE IF Len(s) = 0
         THEN <<>>
         ELSE <<s[1]>> \o ReplaceCodeFences(SubSeq(s, 2, Len(s)))

\* .replace(/ch/g, by) for a single character ch
RECURSIVE ReplaceChar(_, _, _)
ReplaceChar(s, ch, by) ==
    IF Len(s) = 0
    THEN <<>>
    ELSE (IF s[1] = ch THEN by ELSE <<s[1]>>)
             \o ReplaceChar(SubSeq(s, 2, Len(s)), ch, by)

RECURSIVE TrimStart(_)
TrimStart(s) ==
    IF Len(s) > 0 /\ s[1] \in Whitespace
    THEN TrimStart(SubSeq(s, 2, Len(s)))
    ELSE s

RECURSIVE TrimEnd(_)
TrimEnd(s) ==
    IF Len(s) > 0 /\ s[Len(s)] \in Whitespace
    THEN TrimEnd(SubSeq(s, 1, Len(s) - 1))
    ELSE s

Trim(s) == TrimEnd(TrimStart(s))

SanitizeInput(input) ==
    Trim(ReplaceChar(ReplaceChar(ReplaceCodeFences(input),
                                 "{", <<"\\", "{">>),
                     "}", <<"\\", "}">>))

\* systemPrompt: string = 'You are a helpful AI assistant.'
DefaultSystemPrompt ==
    <<"Y", "o", "u", " ", "a", "r", "e", " ", "a", " ", "h", "e", "l", "p",
      "f", "u", "l", " ", "A", "I", " ", "a", "s", "s", "i", "s", "t", "a",
      "n", "t", ".">>

\* An argument list of makeApiCall is a record with the field prompt and,
\* when the caller passes them, systemPrompt and previousMessages.
SystemPromptOf(r) ==
    IF "systemPrompt" \in DOMAIN r THEN r.systemPrompt ELSE DefaultSystemPrompt

PreviousMessagesOf(v, r) ==
    IF TakesPreviousMessages(v) /\ "previousMessages" \in DOMAIN r
    THEN r.previousMessages
    ELSE <<>>

\* the messages constant of makeApiCall, without sanitizing
MutComposeMessagesUnsanitized(v, r) ==
    <<[role |-> "system", content |-> SystemPromptOf(r)]>>
        \o [i \in 1..Len(PreviousMessagesOf(v, r)) |->
              [role |-> PreviousMessagesOf(v, r)[i].role,
               content |-> PreviousMessagesOf(v, r)[i].content]]
        \o <<[role |-> "user", content |-> r.prompt]>>

\* the messages constant of makeApiCall
ComposeMessages(v, r) ==
    LET sanitizedPrompt == SanitizeInput(r.prompt)
        sanitizedSystemPrompt == SanitizeInput(SystemPromptOf(r))
        previousMessages == PreviousMessagesOf(v, r)
    IN <<[role |-> "system", content |-> sanitizedSystemPrompt]>>
           \o [i \in 1..Len(previousMessages) |->
                 [role |-> previousMessages[i].role,
                  content |-> previousMessages[i].content]]
           \o <<[role |-> "user", content |-> sanitizedPrompt]>>

\* the argument list of the callers when the prompt is of no interest
DefaultRequest == [prompt |-> <<"a">>, systemPrompt |-> <<"a">>]

\* prior conversation turns a caller may pass; contents are passed as given
PreviousTurns ==
    { <<>>,
      <<[role |-> "user", content |-> <<" ", "{">>]>>,
      <<[role |-> "user", content |-> <<Backtick, Backtick, Backtick>>],
        [role |-> "assistant", content |-> <<"a", " ">>]>> }

SystemPrompts == { <<" ", "{", "a">>, <<Backtick, Backtick, Backtick, Backtick>> }

\* the argument lists explored for a client of class v
AllRequests(v) ==
    LET prompts == Texts(MaxPromptLen) IN
    { [prompt |-> p] : p \in prompts }
    \cup { [prompt |-> p, systemPrompt |-> s] :
             p \in prompts, s \in SystemPrompts }
    \cup IF TakesPreviousMessages(v)
         THEN { [prompt |-> p, systemPrompt |-> <<" ", "{", "a">>,
                 previousMessages |-> t] :
                  p \in prompts, t \in PreviousTurns \ {<<>>} }
         ELSE {}

---------------------------------------------------------------------------
(* fillPromptTemplate, createPrompt, validatePrompt, truncatePrompt *)

\* index of the first "}" of s at index i or later, 0 when there is none
FirstClosingBrace(s, i) ==
    IF \E j \in i..Len(s) : s[j] = "}"
    THEN CHOOSE j \in i..Len(s) :
             s[j] = "}" /\ \A k \in i..(j - 1) : s[k] # "}"
    ELSE 0

\* the matches of /\{([^}]+)\}/g in s from index i on, leftmost first and
\* non-overlapping, each as <<index of its "{", index of its "}">>: after a
\* "{" the name runs over every character that is not "}", one at least,
\* up to the first "}"
RECURSIVE Placeholders(_, _)
Placeholders(s, i) ==
    IF i > Len(s)
    THEN <<>>
    ELSE IF s[i] = "{" /\ FirstClosingBrace(s, i + 1) > i + 1
         THEN <<<<i, FirstClosingBrace(s, i + 1)>>>>
                  \o Placeholders(s, FirstClosingBrace(s, i + 1) + 1)
         ELSE Placeholders(s, i + 1)

\* placeholders.map(p => p.slice(1, -1))
PlaceholderNames(template) ==
    LET placeholders == Placeholders(template, 1)
    IN [k \in 1..Len(placeholders) |->
          SubSeq(template, placeholders[k][1] + 1, placeholders[k][2] - 1)]

\* Array.from(new Set(names)): the names in the order of their first
\* occurrence
RECURSIVE RequiredVars(_)
RequiredVars(names) ==
    IF Len(names) = 0
    THEN <<>>
    ELSE LET before == RequiredVars(SubSeq(names, 1, Len(names) - 1))
             name == names[Len(names)]
         IN IF \E k \in 1..Len(before) : before[k] = name
            THEN before
            ELSE Append(before, name)

\* the property names every object literal inherits from Object.prototype
ObjectPrototypeKeys ==
    { <<"c", "o", "n", "s", "t", "r", "u", "c", "t", "o", "r">> ,
      <<"_", "_", "d", "e", "f", "i", "n", "e", "G", "e", "t", "t",
        "e", "r", "_", "_">> ,
      <<"_", "_", "d", "e", "f", "i", "n", "e", "S", "e", "t", "t",
        "e", "r", "_", "_">> ,
      <<"h", "a", "s", "O", "w", "n", "P", "r", "o", "p", "e", "r",
        "t", "y">> ,
      <<"_", "_", "l", "o", "o", "k", "u", "p", "G", "e", "t", "t",
        "e", "r", "_", "_">> ,
      <<"_", "_", "l", "o", "o", "k", "u", "p", "S", "e", "t", "t",
        "e", "r", "_", "_">> ,
      <<"i", "s", "P", "r", "o", "t", "o", "t", "y", "p", "e", "O", "f">> ,
      <<"p", "r", "o", "p", "e", "r", "t", "y", "I", "s", "E", "n",
        "u", "m", "e", "r", "a", "b", "l", "e">> ,
      <<"t", "o", "S", "t", "r", "i", "n", "g">> ,
      <<"v", "a", "l", "u", "e", "O", "f">> ,
      <<"_", "_", "p", "r", "o", "t", "o", "_", "_">> ,
      <<"t", "o", "L", "o", "c", "a", "l", "e", "S", "t", "r", "i",
        "n", "g">> }

\* variables is a function from its own property names to values; a value
\* is a string, a number or a boolean
StringValue(text) == [type |-> "string", text |-> text]
NumberValue(n) == [type |-> "number", n |-> n]
BooleanValue(b) == [type |-> "boolean", b |-> b]
NoVariables == [name \in {} |-> StringValue(<<>>)]

\* v in variables: own and inherited property names
HasProperty(variables, v) ==
    v \in DOMAIN variables \/ v \in ObjectPrototypeKeys

\* variables[key]
GetProperty(variables, key) ==
    IF key \in DOMAIN variables
    THEN variables[key]
    ELSE IF key = <<"_", "_", "p", "r", "o", "t", "o", "_", "_">>
         THEN [type |-> "object"]
         ELSE IF key \in ObjectPrototypeKeys
              THEN [type |-> "function",
                    name |-> IF key = <<"c", "o", "n", "s", "t", "r", "u", "c", "t", "o", "r">>
                             THEN <<"O", "b", "j", "e", "c", "t">>
                             ELSE key]
              ELSE [type |-> "undefined"]

Digits == <<"0", "1", "2", "3", "4", "5", "6", "7", "8", "9">>

\* the decimal numeral of a natural number
RECURSIVE Decimal(_)
Decimal(n) ==
    IF n < 10
    THEN <<Digits[n + 1]>>
    ELSE Decimal(n \div 10) \o <<Digits[(n % 10) + 1]>>

\* String(value)
StringOf(value) ==
    CASE value.type = "string" -> value.text
      [] value.type = "number" -> Decimal(value.n)
      [] value.type = "boolean" ->
           IF value.b
           THEN <<"t", "r", "u", "e">>
           ELSE <<"f", "a", "l", "s", "e">>
      [] value.type = "function" ->
           <<"f", "u", "n", "c", "t", "i", "o", "n", " ">> \o value.name
               \o <<"(", ")", " ", "{", " ", "[", "n", "a", "t", "i", "v",
                    "e", " ", "c", "o", "d", "e", "]", " ", "}">>
      [] value.type = "object" ->
           <<"[", "o", "b", "j", "e", "c", "t", " ", "O", "b", "j", "e",
             "c", "t", "]">>
      [] OTHER ->
           <<"u", "n", "d", "e", "f", "i", "n", "e", "d">>

\* names.join(sep)
RECURSIVE Join(_, _)
Join(names, sep) ==
    IF Len(names) = 0
    THEN <<>>
    ELSE IF Len(names) = 1
         THEN names[1]
         ELSE names[1] \o sep \o Join(SubSeq(names, 2, Len(names)), sep)

\* 'Missing required variables: '
MissingPrefix ==
    <<"M", "i", "s", "s", "i", "n", "g", " ", "r", "e", "q", "u", "i",
      "r", "e", "d", " ", "v", "a", "r", "i", "a", "b", "l", "e", "s",
      ":", " ">>

\* what a function does: it returns a string or throws an Error with a
\* message
Returned(text) == [kind |-> "return", text |-> text]
Thrown(message) == [kind |-> "throw", text |-> message]

\* template.replace(/\{([^}]+)\}/g, (_, key) => String(variables[key])) from
\* index i on: the replacement text is not scanned again
MutReplacePlaceholdersFirstOnly(s, i, variables) ==
    LET placeholders == Placeholders(s, 1)
    IN IF Len(placeholders) = 0
       THEN s
       ELSE SubSeq(s, 1, placeholders[1][1] - 1)
                \o StringOf(GetProperty(variables,
                       SubSeq(s, placeholders[1][1] + 1,
                              placeholders[1][2] - 1)))
                \o SubSeq(s, placeholders[1][2] + 1, Len(s))

RECURSIVE ReplacePlaceholders(_, _, _)
ReplacePlaceholders(s, i, variables) ==
    IF i > Len(s)
    THEN <<>>
    ELSE IF s[i] = "{" /\ FirstClosingBrace(s, i + 1) > i + 1
         THEN StringOf(GetProperty(variables,
                  SubSeq(s, i + 1, FirstClosingBrace(s, i + 1) - 1)))
                  \o ReplacePlaceholders(s, FirstClosingBrace(s, i + 1) + 1,
                                         variables)
         ELSE <<s[i]>> \o ReplacePlaceholders(s, i + 1, variables)

FillPromptTemplate(template, variables) ==
    LET requiredVars == RequiredVars(PlaceholderNames(template))
        missingVars == SelectSeq(requiredVars,
                                 LAMBDA v : ~HasProperty(variables, v))
    IN IF Len(missingVars) > 0
       THEN Thrown(MissingPrefix \o Join(missingVars, <<",", " ">>))
       ELSE Returned(ReplacePlaceholders(template, 1, variables))

\* a PromptTemplate is a record with the field template and, when it is
\* given, systemPrompt
CreatePrompt(promptTemplate, variables) ==
    LET filledTemplate == FillPromptTemplate(promptTemplate.template, variables)
    IN IF filledTemplate.kind = "throw"
       THEN filledTemplate
       ELSE IF "systemPrompt" \in DOMAIN promptTemplate
                 /\ Len(promptTemplate.systemPrompt) > 0
            THEN Returned(promptTemplate.systemPrompt \o <<"\n", "\n">>
                              \o filledTemplate.text)
            ELSE filledTemplate

ValidatePrompt(prompt, maxLength) == Len(prompt) <= maxLength

\* s.slice(start, end) with indexes counted from 0, negative ones from the
\* end
Slice(s, start, end) ==
    LET from == IF start < 0
                THEN (IF Len(s) + start < 0 THEN 0 ELSE Len(s) + start)
                ELSE Min(start, Len(s))
        to == IF end < 0
              THEN (IF Len(s) + end < 0 THEN 0 ELSE Len(s) + end)
              ELSE Min(end, Len(s))
    IN SubSeq(s, from + 1, to)

\* the characters the . of a regular expression does not match
LineTerminators == {"\n", "\r"}
SentenceEnds == {".", "!", "?"}

\* index of the last character of the line of s that index i is in, i - 1
\* when s[i] is a line terminator
LineEnd(s, i) ==
    IF \E j \in i..Len(s) : s[j] \in LineTerminators
    THEN (CHOOSE j \in i..Len(s) :
              s[j] \in LineTerminators
                  /\ \A k \in i..(j - 1) : s[k] \notin LineTerminators) - 1
    ELSE Len(s)

\* whether /.*[.!?]/ matches s starting at index i
MatchesSentenceAt(s, i) ==
    \E j \in i..LineEnd(s, i) : s[j] \in SentenceEnds

\* s.match(/.*[.!?]/): null (FALSE), or the match [0]: the leftmost one,
\* taken as long as it can be within its line
LastSentence(s) ==
    IF \E i \in 1..Len(s) : MatchesSentenceAt(s, i)
    THEN LET i == CHOOSE i \in 1..Len(s) :
                      MatchesSentenceAt(s, i)
                          /\ \A k \in 1..(i - 1) : ~MatchesSentenceAt(s, k)
             j == CHOOSE j \in i..LineEnd(s, i) :
                      s[j] \in SentenceEnds
                          /\ \A k \in (j + 1)..LineEnd(s, i) :
                                s[k] \notin SentenceEnds
         IN [found |-> TRUE, text |-> SubSeq(s, i, j)]
    ELSE [found |-> FALSE, text |-> <<>>]

\* s.lastIndexOf(' '), counted from 0, -1 when s has no space
LastIndexOfSpace(s) ==
    IF \E j \in 1..Len(s) : s[j] = " "
    THEN (CHOOSE j \in 1..Len(s) :
              s[j] = " " /\ \A k \in (j + 1)..Len(s) : s[k] # " ") - 1
    ELSE -1

TruncatePrompt(prompt, maxLength) ==
    IF Len(prompt) <= maxLength
    THEN prompt
    ELSE LET truncated == Slice(prompt, 0, maxLength)
             lastSentence == LastSentence(truncated)
             lastSpace == LastIndexOfSpace(truncated)
         IN IF lastSentence.found
            THEN lastSentence.text
            ELSE Slice(truncated, 0, lastSpace) \o <<".", ".", ".">>

\* no function of utils/prompt.ts is being called
NoUtilCall == [fn |-> "none"]

---------------------------------------------------------------------------
(* config.api.maxRetries *)

\* the number NaN, held as an integer that parseInt yields for no text of
\* the lengths explored
NaN == -1000000

\* a < b on numbers: false where either side is NaN
NumberLess(a, b) == a # NaN /\ b # NaN /\ a < b

IsDigit(ch) == \E d \in 1..10 : Digits[d] = ch
DigitValue(ch) == (CHOOSE d \in 1..10 : Digits[d] = ch) - 1

RECURSIVE SkipWhitespace(_)
SkipWhitespace(s) ==
    IF s # <<>> /\ Head(s) \in Whitespace THEN SkipWhitespace(Tail(s)) ELSE s

\* the value of the longest prefix of s made of digits, after the digits
\* that made acc
RECURSIVE DigitPrefixValue(_, _)
DigitPrefixValue(s, acc) ==
    IF s # <<>> /\ IsDigit(Head(s))
    THEN DigitPrefixValue(Tail(s), acc * 10 + DigitValue(Head(s)))
    ELSE acc

\* parseInt(text, 10): leading white space is skipped, a sign is read, then
\* the longest run of digits; NaN where no digit follows
ParseInt(text) ==
    LET s == SkipWhitespace(text)
        signed == s # <<>> /\ Head(s) \in {"-", "+"}
        body == IF signed THEN Tail(s) ELSE s
    IN IF body = <<>> \/ ~IsDigit(Head(body))
       THEN NaN
       ELSE IF signed /\ Head(s) = "-"
            THEN 0 - DigitPrefixValue(body, 0)
            ELSE DigitPrefixValue(body, 0)

\* parseInt(process.env.DEEPSEEK_MAX_RETRIES || '3', 10); env is <<>> for a
\* variable that is unset or empty
LoadMaxRetries(env) == ParseInt(IF env = <<>> THEN <<"3">> ELSE env)

\* the loader does not throw on maxRetries n:
\* if (apiConfig.maxRetries < 1) throw ...   (config.ts only)
LoaderAccepts(loader, n) == loader = "config.ts" => ~NumberLess(n, 1)

---------------------------------------------------------------------------
(* retryWithExponentialBackoff *)

\* for (...; attempt < maxRetries; ...)
MutLoopGuardInclusive(attempt, limit) == attempt <= limit

LoopGuard(attempt, limit) == NumberLess(attempt, limit)

\* error instanceof OpenAI.APIError && error.status === 429     (SDK clients)
\* error instanceof AxiosError && error.response?.status === 429 (axios client)
MutIsRetryableServerErrors(v, error) ==
    IF v = "axios"
    THEN error.cls = "AxiosError" /\ error.status = 429
    ELSE error.cls = "APIError" /\ error.status >= 429

IsRetryable(v, error) ==
    IF v = "axios"
    THEN error.cls = "AxiosError" /\ error.status = 429
    ELSE error.cls = "APIError" /\ error.status = 429

\* const delay = baseDelay * Math.pow(2, attempt)
MutBackoffDelayLinear(baseDelay, attempt) == baseDelay * (attempt + 1)

BackoffDelay(baseDelay, attempt) == baseDelay * Pow2(attempt)

\* lastError = error as Error
MutNextLastErrorKeepFirst(prev, error) == IF prev = NoError THEN error ELSE prev

NextLastError(prev, error) == error

\* throw lastError || new Error('Max retries exceeded')
ExhaustedError(lastError) ==
    IF lastError # NoError
    THEN lastError
    ELSE [cls |-> "Error", status |-> 0, message |-> "Max retries exceeded"]

---------------------------------------------------------------------------
(* makeApiCall *)

\* the early return when tryConsume() is false
DeniedCompletion ==
    [kind |-> "return",
     value |-> [text |-> "", isError |-> TRUE, errorMessage |-> RateLimitMessage]]

\* the catch block of makeApiCall: every error becomes an error result
MutCatchCompletionRethrow(v, error) ==
    IF error.cls = "TypeError"
    THEN [kind |-> "throw", value |-> error]
    ELSE [kind |-> "return",
          value |-> [text |-> "", isError |-> TRUE, errorMessage |-> error.message]]

MutCatchCompletionKeepsText(v, error) ==
    [kind |-> "return",
     value |-> [text |-> error.message, isError |-> TRUE,
                errorMessage |-> error.message]]

CatchCompletion(v, error) ==
    [kind |-> "return",
     value |-> [text |-> "",
                isError |-> TRUE,
                errorMessage |->
                    IF error.cls \in {"APIError", "AxiosError", "Error", "TypeError"}
                    THEN error.message
                    ELSE UnknownErrorMessage]]

\* the code after the retry loop resolved: extract the text and return, or
\* fail inside the try block on a body that lacks what is dereferenced
SuccessCompletion(v, te) ==
    IF v = "axios"
    THEN \* response.data.choices[0].message.content
         CASE te.body = "content" ->
                [kind |-> "return", value |-> [text |-> "Hello", isError |-> FALSE]]
           [] te.body = "nocontent" ->
                [kind |-> "return", value |-> [text |-> UNDEFINED, isError |-> FALSE]]
           [] te.body = "emptychoices" ->
                CatchCompletion(v, TypeErrorOf("message"))
           [] OTHER ->
                CatchCompletion(v, TypeErrorOf("0"))
    ELSE IF v = "reasoner"
    THEN \* (response.choices[0]?.message as any)?.reasoning_content || ''
         \* response.choices[0]?.message?.content || ''
         CASE te.body \in {"content", "reasoned"} ->
                [kind |-> "return",
                 value |-> [text |-> "Hello",
                            reasoning |-> IF te.body = "reasoned" THEN "r" ELSE "",
                            isError |-> FALSE]]
           [] te.body \in {"nocontent", "emptychoices", "reasoningonly"} ->
                [kind |-> "return",
                 value |-> [text |-> "",
                            reasoning |-> IF te.body = "reasoningonly"
                                          THEN "r" ELSE "",
                            isError |-> FALSE]]
           [] OTHER ->
                CatchCompletion(v, TypeErrorOf("0"))
    ELSE \* response.choices[0]?.message?.content || ''
         CASE te.body = "content" ->
                [kind |-> "return", value |-> [text |-> "Hello", isError |-> FALSE]]
           [] te.body \in {"nocontent", "emptychoices"} ->
                [kind |-> "return", value |-> [text |-> "", isError |-> FALSE]]
           [] OTHER ->
                CatchCompletion(v, TypeErrorOf("0"))

---------------------------------------------------------------------------
(* State of one makeApiCall invocation *)

IdleCall ==
    [pc |-> "idle",          \* idle, attempt (awaiting operation()),
                             \* backoff (awaiting setTimeout), done, threw
     client |-> "none",      \* the client whose makeApiCall this is
     admitted |-> "none",    \* none, yes, no: what tryConsume answered
     ticket |-> 0,           \* history: tryCount at its tryConsume
     attempt |-> 0,          \* the loop variable
     lastError |-> NoError,  \* the loop's lastError
     netCalls |-> 0,         \* history: operation() invocations so far
     delays |-> <<>>,        \* history: the setTimeout delays, in order
     n429 |-> 0,             \* history: attempts answered with HTTP 429
     lastEvent |-> NoEvent,  \* history: the latest transport event
     observed |-> NoError,   \* history: the error the latest attempt rejected with
     request |-> DefaultRequest, \* the arguments of the invocation
     messages |-> <<>>,      \* the messages constant the operation closes over
     sent |-> <<>>,          \* history: messages of the latest create()/post()
     result |-> <<>>]        \* <<the returned LLMResponse>>, once returned

\* the call completes: the promise resolves with a result or rejects
Complete(s, completion) ==
    IF completion.kind = "return"
    THEN [s EXCEPT !.pc = "done", !.result = <<completion.value>>]
    ELSE [s EXCEPT !.pc = "threw"]

\* the head of the for loop with loop variable a
LoopHead(s, a) ==
    IF LoopGuard(a, maxRetries)
    THEN [s EXCEPT !.pc = "attempt", !.attempt = a, !.netCalls = @ + 1,
                   !.sent = s.messages]
    ELSE Complete([s EXCEPT !.attempt = a],
                  CatchCompletion(VariantOf(s.client),
                                  ExhaustedError(s.lastError)))

\* makeApiCall(r) of client cl up to its first await, its limiter holding t
\* tokens last refilled at last and the clock reading now: the admission
\* check, then the messages and the first attempt
EnterMakeApiCall(cl, t, last, now, r, ticket) ==
    IF TryConsumeResult(t, last, now)
    THEN LoopHead([IdleCall EXCEPT
                     !.client = cl,
                     !.admitted = "yes",
                     !.ticket = ticket,
                     !.request = r,
                     !.messages = ComposeMessages(VariantOf(cl), r)], 0)
    ELSE Complete([IdleCall EXCEPT !.client = cl,
                                   !.admitted = "no",
                                   !.ticket = ticket,
                                   !.request = r],
                  DeniedCompletion)

---------------------------------------------------------------------------
(* Tool handlers and the request handler of MentorServer *)

ToolNames ==
    {"second_opinion", "code_review", "design_critique", "writing_feedback",
     "brainstorm_enhancements"}

\* the client whose makeApiCall and checkRateLimit the module of a tool
\* imports
ClientOf(tool) ==
    IF tool \in {"second_opinion", "design_critique"}
    THEN "openrouter"
    ELSE "deepseek"

\* the argument fields a tool looks at
FieldsOf(tool) ==
    CASE tool = "second_opinion" -> {"user_request"}
      [] tool = "code_review" -> {"language", "file_path", "code_snippet"}
      [] tool = "design_critique" -> {"design_document", "design_type"}
      [] tool = "writing_feedback" -> {"text", "writing_type"}
      [] tool = "brainstorm_enhancements" -> {"concept"}
      [] OTHER -> {}

\* An argument field is absent, present with the value undefined, the empty
\* string, the string 'a', the string 'constructor' (a key that the type
\* prompt tables inherit from Object.prototype), the number 1 or the
\* number 0.
ArgClasses ==
    {"absent", "undefined", "empty", "string", "constructor", "number", "zero"}
\* the classes explored for each field
ClassesOf(field) ==
    CASE field = "file_path" ->
            {"absent", "undefined", "string", "number", "zero"}
      [] field = "code_snippet" ->
            {"absent", "empty", "string", "number", "zero"}
      [] field \in {"design_type", "writing_type"} ->
            {"absent", "string", "constructor"}
      [] OTHER -> {"absent", "string", "number"}
IsString(x) == x \in {"empty", "string", "constructor"}
IsTruthy(x) == x \in {"string", "constructor", "number"}

\* args is undefined, or an object with fields
NoArgs == [isObject |-> FALSE, fields |-> <<>>]
ArgsOf(tool) ==
    {NoArgs} \cup
    { [isObject |-> TRUE, fields |-> f] :
        f \in { g \in [FieldsOf(tool) -> ArgClasses] :
                  \A field \in FieldsOf(tool) : g[field] \in ClassesOf(field) } }

ErrorResponse(text) ==
    [content |-> <<[type |-> "text", text |-> text]>>, isError |-> TRUE]
TextResponse(text) ==
    [content |-> <<[type |-> "text", text |-> text]>>]

\* the subject named in a handler's messages
SubjectOf(tool) ==
    CASE tool = "second_opinion" -> "second opinion"
      [] tool = "code_review" -> "code review"
      [] tool = "design_critique" -> "design critique"
      [] tool = "writing_feedback" -> "writing feedback"
      [] OTHER -> "enhancement ideas"

\* the catch block of a handler: the error becomes an error response
MutHandlerCatchRethrow(tool, message) ==
    [kind |-> "throw", message |-> message]

HandlerCatch(tool, message) ==
    [kind |-> "return",
     response |-> ErrorResponse(
        (IF tool = "second_opinion"
         THEN "Error processing request: "
         ELSE "Error processing " \o SubjectOf(tool) \o ": ") \o message)]

\* the argument checks of a handler: the message of the check that fails,
\* or "" when they all pass
ValidationFailure(tool, args) ==
    IF tool = "second_opinion"
    THEN IF ~args.isObject \/ ~IsString(args.fields.user_request)
         THEN "Missing or invalid user_request parameter."
         ELSE ""
    ELSE IF ~args.isObject
    THEN "Invalid arguments provided."
    ELSE CASE tool = "code_review" ->
                IF ~IsString(args.fields.language)
                THEN "Language parameter is required and must be a string."
                ELSE IF ~IsTruthy(args.fields.file_path)
                        /\ ~IsTruthy(args.fields.code_snippet)
                THEN "Either file_path or code_snippet must be provided."
                ELSE ""
           [] tool = "design_critique" ->
                IF ~IsString(args.fields.design_document)
                      \/ ~IsString(args.fields.design_type)
                THEN "Both design_document and design_type are required and must be strings."
                ELSE ""
           [] tool = "writing_feedback" ->
                IF ~IsString(args.fields.text)
                      \/ ~IsString(args.fields.writing_type)
                THEN "Both text and writing_type are required and must be strings."
                ELSE ""
           [] OTHER ->
                IF ~IsString(args.fields.concept)
                THEN "Concept parameter is required and must be a string."
                ELSE ""

\* sanitizeInput and createPrompt on arguments that passed the checks: the
\* message of the exception they throw, or "" when the prompt is composed
CompositionFailure(tool, args) ==
    CASE tool = "code_review" ->
            \* sanitizeInput(code_snippet) with a code_snippet that is no string
            IF ~IsTruthy(args.fields.file_path)
                  /\ ~IsString(args.fields.code_snippet)
            THEN "input.replace is not a function"
            ELSE ""
      [] tool = "design_critique" ->
            \* DESIGN_TYPE_PROMPTS['constructor'] is a function: the
            \* placeholder stays in the template and fillPromptTemplate throws
            IF args.fields.design_type = "constructor"
            THEN "Missing required variables: type_specific_prompts"
            ELSE ""
      [] tool = "writing_feedback" ->
            IF args.fields.writing_type = "constructor"
            THEN "Missing required variables: type_specific_prompts"
            ELSE ""
      [] OTHER -> ""

\* SYSTEM_PROMPT of a tool: the five texts all begin with this word, and the
\* rest of them is left out
SYSTEM_PROMPT == <<"Y", "o", "u">>

\* the variable of a tool's template that holds the text to work on
MainVariableOf(tool) ==
    CASE tool = "second_opinion" ->
           <<"u", "s", "e", "r", "_", "r", "e", "q", "u", "e", "s", "t">>
      [] tool = "code_review" -> <<"c", "o", "d", "e">>
      [] tool = "design_critique" ->
           <<"d", "e", "s", "i", "g", "n", "_", "d", "o", "c", "u", "m", "e", "n", "t">>
      [] tool = "writing_feedback" -> <<"t", "e", "x", "t">>
      [] OTHER -> <<"c", "o", "n", "c", "e", "p", "t">>

\* PROMPT_TEMPLATE of a tool, its template cut down to the placeholder of
\* that variable
PROMPT_TEMPLATE(tool) ==
    [template |-> <<"{">> \o MainVariableOf(tool) \o <<"}">>,
     systemPrompt |-> SYSTEM_PROMPT]

\* the text of a string argument that passed the checks
ArgumentText == <<"a">>

\* the prompt and system prompt a handler passes to makeApiCall: the prompt
\* is createPrompt(PROMPT_TEMPLATE, {...}) of the arguments, sanitized by
\* every tool but second_opinion
HandlerRequest(tool) ==
    LET value == IF tool = "second_opinion"
                 THEN ArgumentText
                 ELSE SanitizeInput(ArgumentText)
        prompt == CreatePrompt(PROMPT_TEMPLATE(tool),
                               MainVariableOf(tool) :> StringValue(value))
    IN [prompt |-> prompt.text, systemPrompt |-> SYSTEM_PROMPT]

RateLimitResponse == ErrorResponse("Rate limit exceeded. Please try again later.")

\* A handler that goes on to the model whatever its arguments are.
MutAfterCheckRateLimitUnvalidated(tool, args, ok) ==
    IF ~ok
    THEN [kind |-> "return", validated |-> FALSE, composed |-> FALSE,
          response |-> RateLimitResponse]
    ELSE [kind |-> "call", validated |-> TRUE, composed |-> TRUE]

\* A handler whose checkRateLimit() returned false continues as if it had
\* returned true.
MutAfterCheckRateLimitIgnored(tool, args, ok) ==
    IF ValidationFailure(tool, args) # ""
    THEN [kind |-> "return", validated |-> TRUE, composed |-> FALSE,
          response |-> ErrorResponse(ValidationFailure(tool, args))]
    ELSE [kind |-> "call", validated |-> TRUE, composed |-> TRUE]

\* A handler after checkRateLimit() returned ok, up to its first await or
\* to its return: what it does next, and how far it got
AfterCheckRateLimit(tool, args, ok) ==
    IF ~ok
    THEN [kind |-> "return", validated |-> FALSE, composed |-> FALSE,
          response |-> RateLimitResponse]
    ELSE IF ValidationFailure(tool, args) # ""
    THEN [kind |-> "return", validated |-> TRUE, composed |-> FALSE,
          response |-> ErrorResponse(ValidationFailure(tool, args))]
    ELSE IF tool = "code_review" /\ IsTruthy(args.fields.file_path)
    THEN [kind |-> "read", validated |-> TRUE, composed |-> FALSE,
          path |-> args.fields.file_path]
    ELSE IF CompositionFailure(tool, args) # ""
    THEN [validated |-> TRUE, composed |-> TRUE]
            @@ HandlerCatch(tool, CompositionFailure(tool, args))
    ELSE [kind |-> "call", validated |-> TRUE, composed |-> TRUE]

\* the handler after makeApiCall returned result; second_opinion adds the
\* reasoning of the result when there is some
FromResult(tool, result) ==
    IF result.isError
    THEN ErrorResponse("Error generating " \o SubjectOf(tool) \o ": "
            \o (IF result.errorMessage \in {"", UNDEFINED}
                THEN "Unknown error"
                ELSE result.errorMessage))
    ELSE IF /\ tool = "second_opinion"
            /\ "reasoning" \in DOMAIN result
            /\ result.reasoning # ""
    THEN [content |-> <<[type |-> "text", text |-> result.text]>>,
          reasoning |-> <<[type |-> "text",
                           text |-> "<reasoning>\n" \o result.reasoning
                                       \o "\n</reasoning>"]>>]
    ELSE TextResponse(result.text)

IdleTool ==
    [pc |-> "idle",         \* idle, reading (awaiting readFileContent),
                            \* awaiting (makeApiCall), returned, threw,
                            \* rejected (the request handler threw an McpError)
     tool |-> "none",
     args |-> NoArgs,       \* the arguments of the invocation
     via |-> "none",        \* server: a tool-call request; direct: handler(args)
     afterStop |-> FALSE,   \* history: isShuttingDown when the request arrived
     checked |-> "none",    \* history: what checkRateLimit() answered
     validated |-> FALSE,   \* history: the argument checks were reached
     composed |-> FALSE,    \* history: prompt composition was reached
     read |-> "none",       \* history: how readFileContent settled: none,
                            \* content, failed
     called |-> FALSE,      \* history: makeApiCall was invoked
     endedAfterStop |-> FALSE, \* history: isShuttingDown when it returned
     result |-> <<>>,       \* <<the LLMResponse makeApiCall returned>>
     response |-> <<>>,     \* <<the ToolResponse>>, once returned
     error |-> "",          \* the message of the McpError, once rejected
     code |-> "none"]       \* the ErrorCode of the McpError, once rejected

IsFree(slot) == slot.pc \in {"idle", "returned", "threw", "rejected"}

\* new McpError(ErrorCode.<code>, message), and an exception of another class
McpError(code, message) ==
    [isMcpError |-> TRUE, code |-> code, message |-> message]
OtherError(message) ==
    [isMcpError |-> FALSE, code |-> "none", message |-> message]

\* the catch block of the request handler around the dispatch on name
MutDispatchCatchWrapsAll(name, error) ==
    McpError("InternalError",
             "Internal server error while executing tool " \o name)

DispatchCatch(name, error) ==
    IF error.isMcpError
    THEN error
    ELSE McpError("InternalError",
                  "Internal server error while executing tool " \o name)

\* toolResponseToServerResult(response), which the request handler of
\* server.ts calls on the response of a handler: types/index.ts, from which
\* the name is imported, exports no such function, and the call throws a
\* TypeError
ToolResponseToServerResult(response) ==
    Thrown("toolResponseToServerResult is not a function")

\* the handler leaves: it returns a response, or throws. The request
\* handler of server.ts converts the response it got, that of part_002
\* returns it as it is, and the catch block of either turns what was
\* thrown into the McpError the request is rejected with
Leave(slot, step) ==
    LET thrown ==
          IF step.kind # "return"
          THEN <<step.message>>
          ELSE IF /\ slot.via = "server"
                  /\ server.dispatcher = "server.ts"
                  /\ ToolResponseToServerResult(step.response).kind = "throw"
          THEN <<ToolResponseToServerResult(step.response).text>>
          ELSE <<>>
    IN IF thrown = <<>>
       THEN [slot EXCEPT !.pc = "returned", !.response = <<step.response>>,
                         !.endedAfterStop = server.isShuttingDown]
       ELSE IF slot.via = "server"
       THEN [slot EXCEPT !.pc = "rejected",
                         !.endedAfterStop = server.isShuttingDown,
                         !.error = DispatchCatch(slot.tool,
                                                 OtherError(thrown[1])).message,
                         !.code = DispatchCatch(slot.tool,
                                                OtherError(thrown[1])).code]
       ELSE [slot EXCEPT !.pc = "threw",
                         !.endedAfterStop = server.isShuttingDown]

\* if (this.isShuttingDown) throw ...: whether the request is turned away
MutShutdownGateOpen(s) == FALSE

ShutdownGate(s) == s.isShuttingDown

\* the argument checks of the request handler, per tool name
ServerAccepts(name, args) ==
    /\ args.isObject
    /\ CASE name = "second_opinion" -> IsString(args.fields.user_request)
         [] name = "code_review" ->
              /\ IsString(args.fields.language)
              /\ \/ args.fields.file_path \in {"undefined", "empty", "string", "constructor"}
                 \/ args.fields.code_snippet \in {"undefined", "empty", "string", "constructor"}
         [] name = "design_critique" ->
              IsString(args.fields.design_document) /\ IsString(args.fields.design_type)
         [] name = "writing_feedback" ->
              IsString(args.fields.text) /\ IsString(args.fields.writing_type)
         [] OTHER -> IsString(args.fields.concept)

\* the two request handlers the repository holds: that of server.ts, which
\* dispatches the five tools, and that of part_002, which dispatches
\* second_opinion only
Dispatchers == {"server.ts", "part_002"}

\* the names the switch of the request handler has a case for
DispatchedTools(dispatcher) ==
    IF dispatcher = "part_002" THEN {"second_opinion"} ELSE ToolNames

InvalidParamsMessage(name) ==
    CASE name = "second_opinion" -> "Missing required parameter: user_request"
      [] name = "code_review" -> "Invalid parameters for code review"
      [] name = "design_critique" -> "Invalid parameters for design critique"
      [] name = "writing_feedback" -> "Invalid parameters for writing feedback"
      [] OTHER -> "Invalid parameters for brainstorm enhancements"

\* the argument checks of the case of a dispatched tool: the message of the
\* McpError(InvalidParams) thrown, or "" when the handler is called
DispatchCheck(dispatcher, name, args) ==
    IF dispatcher = "part_002"
    THEN \* !args || !isValidToolArgs(args, ["user_request"]), then typeof
         IF ~args.isObject
               \/ args.fields.user_request \in {"absent", "undefined"}
         THEN "Missing required parameter: user_request"
         ELSE IF ~IsString(args.fields.user_request)
         THEN "Parameter 'user_request' must be a string"
         ELSE ""
    ELSE IF ServerAccepts(name, args)
    THEN ""
    ELSE InvalidParamsMessage(name)

\* the tool-call requests explored at the server: an unknown tool, missing
\* and wrong arguments, and arguments with which the handler calls the
\* model, reads a file, returns early, and fails composing the prompt
ServerRequests ==
    { [name |-> "no_such_tool", args |-> NoArgs],
      [name |-> "second_opinion", args |-> NoArgs],
      [name |-> "second_opinion",
       args |-> [isObject |-> TRUE, fields |-> [user_request |-> "string"]]],
      [name |-> "second_opinion",
       args |-> [isObject |-> TRUE, fields |-> [user_request |-> "number"]]],
      [name |-> "code_review",
       args |-> [isObject |-> TRUE,
                 fields |-> [language |-> "string", file_path |-> "string",
                             code_snippet |-> "absent"]]],
      [name |-> "code_review",
       args |-> [isObject |-> TRUE,
                 fields |-> [language |-> "string", file_path |-> "undefined",
                             code_snippet |-> "absent"]]],
      [name |-> "design_critique",
       args |-> [isObject |-> TRUE,
                 fields |-> [design_document |-> "string",
                             design_type |-> "constructor"]]],
      [name |-> "writing_feedback",
       args |-> [isObject |-> TRUE,
                 fields |-> [text |-> "string", writing_type |-> "string"]]],
      [name |-> "brainstorm_enhancements",
       args |-> [isObject |-> TRUE, fields |-> [concept |-> "number"]]] }

RunningServer ==
    [isShuttingDown |-> FALSE,
     phase |-> "running",   \* running, closing (stop() awaits close()), exited
     closes |-> 0,          \* history: invocations of this.server.close()
     closed |-> FALSE,      \* history: the close() of stop() has settled
     connect |-> "connected", \* the server.connect() of start(): pending,
                            \* connected
     dispatcher |-> "server.ts"] \* which request handler is registered

\* the server as constructed at module scope: start() awaits connect()
StartingServer == [RunningServer EXCEPT !.connect = "pending"]

\* process.exit() has not been called: nothing runs after it
Alive == server.phase # "exited"

---------------------------------------------------------------------------
(* Actions *)

\* the two classes whose retry loops differ; the DeepseekClient classes on
\* the SDK, whose loop is that of OpenRouterClient, are followed in
\* SpecLive, SpecCompose and SpecTools
Init ==
    /\ variant \in {"openai", "axios"}
    /\ \E cfg \in LimiterConfigs :
         /\ maxTokens = cfg[1]
         /\ refillRate = cfg[2]
         /\ tokens = [cl \in Clients |-> cfg[1]]
    \* the client followed was constructed at any reading, the other at 0
    /\ \E reading \in ClockReadings :
         lastRefill = [cl \in Clients |->
                          IF cl = ClientUnderStudy THEN reading ELSE 0]
    /\ maxRetries \in 0..MaxRetriesBound
    /\ calls = [c \in Calls |-> IdleCall]
    /\ tryCount = 0
    /\ recording = FALSE
    /\ hist = InitHist(0)
    /\ requests = {DefaultRequest}
    /\ server = RunningServer
    /\ tools = [c \in Calls |-> IdleTool]
    /\ utilCall = NoUtilCall

\* makeApiCall of client cl up to its first await: admission, then the
\* first attempt
MutMakeApiCallBlockedByBackoff(c, cl) ==
    /\ Alive
    /\ \A d \in Calls : calls[d].pc # "backoff"
    /\ calls[c].pc \in {"idle", "done", "threw"}
    /\ tryCount' = Min(tryCount + 1, MaxTryCount)
    /\ \E now \in ClockReadings, r \in requests :
         /\ tokens' = [tokens EXCEPT ![cl] =
               TryConsumeTokens(tokens[cl], lastRefill[cl], now)]
         /\ lastRefill' = [lastRefill EXCEPT ![cl] = now]
         /\ hist' = IF recording
                    THEN RecordTryConsume(hist, tokens[cl], lastRefill[cl], now)
                    ELSE hist
         /\ calls' = [calls EXCEPT ![c] =
               EnterMakeApiCall(cl, tokens[cl], lastRefill[cl], now, r,
                                tryCount')]
    /\ UNCHANGED <<fixedVars, serverVars>>

MakeApiCall(c, cl) ==
    /\ Alive
    /\ calls[c].pc \in {"idle", "done", "threw"}
    /\ tryCount' = Min(tryCount + 1, MaxTryCount)
    /\ \E now \in ClockReadings, r \in requests :
         /\ tokens' = [tokens EXCEPT ![cl] =
               TryConsumeTokens(tokens[cl], lastRefill[cl], now)]
         /\ lastRefill' = [lastRefill EXCEPT ![cl] = now]
         /\ hist' = IF recording
                    THEN RecordTryConsume(hist, tokens[cl], lastRefill[cl], now)
                    ELSE hist
         /\ calls' = [calls EXCEPT ![c] =
               EnterMakeApiCall(cl, tokens[cl], lastRefill[cl], now, r,
                                tryCount')]
    /\ UNCHANGED <<fixedVars, serverVars>>

\* the awaited operation() settles with transport event te
Respond(c) ==
    /\ Alive
    /\ calls[c].pc = "attempt"
    /\ \E te \in TransportEvents(VariantOf(calls[c].client)) :
         LET s == [calls[c] EXCEPT !.lastEvent = te] IN
         calls' = [calls EXCEPT ![c] =
            IF te.kind = "ok"
            THEN Complete(s, SuccessCompletion(VariantOf(calls[c].client), te))
            ELSE LET error == OperationError(VariantOf(calls[c].client), te)
                     s1 == [s EXCEPT
                              !.lastError = NextLastError(s.lastError, error),
                              !.observed = error,
                              !.n429 = IF te.kind = "http" /\ te.status = 429
                                       THEN @ + 1 ELSE @]
                 IN IF IsRetryable(VariantOf(calls[c].client), error)
                    THEN [s1 EXCEPT
                            !.pc = "backoff",
                            !.delays = Append(@, BackoffDelay(BaseDelay, s.attempt))]
                    ELSE Complete(s1, CatchCompletion(VariantOf(calls[c].client), error))]
    /\ UNCHANGED <<fixedVars, limiterVars, tryCount, hist, serverVars>>

\* the backoff timer fires: continue with attempt + 1
MutTimerFireConsumes(c) ==
    /\ Alive
    /\ calls[c].pc = "backoff"
    /\ calls' = [calls EXCEPT ![c] = LoopHead(@, @.attempt + 1)]
    /\ tokens' = [tokens EXCEPT ![calls[c].client] = @ - 1]
    /\ UNCHANGED <<fixedVars, lastRefill, tryCount, hist, serverVars>>

TimerFire(c) ==
    /\ Alive
    /\ calls[c].pc = "backoff"
    /\ calls' = [calls EXCEPT ![c] = LoopHead(@, @.attempt + 1)]
    /\ UNCHANGED <<fixedVars, limiterVars, tryCount, hist, serverVars>>

\* the exported checkRateLimit() of client cl
CheckRateLimit(cl) ==
    /\ Alive
    /\ \E now \in ClockReadings :
         /\ TryConsumeTokens(tokens[cl], lastRefill[cl], now) >= -MaxDebt
         /\ tokens' = [tokens EXCEPT ![cl] =
               TryConsumeTokens(tokens[cl], lastRefill[cl], now)]
         /\ lastRefill' = [lastRefill EXCEPT ![cl] = now]
         /\ hist' = IF recording
                    THEN RecordTryConsume(hist, tokens[cl], lastRefill[cl], now)
                    ELSE hist
    /\ tryCount' = Min(tryCount + 1, MaxTryCount)
    /\ UNCHANGED <<fixedVars, calls, serverVars>>

\* what Date.now() may read at a call of tryConsume on client cl made by a
\* tool handler: a reading not before the one the bucket holds; a bucket
\* that is never refilled answers the same at every reading, and one
\* reading is explored for it
HandlerClockReadings(cl) ==
    IF refillRate = 0
    THEN {0}
    ELSE {reading \in {0, 100} : reading >= lastRefill[cl]}

\* handler(args) of tool from its start to its first await or its return:
\* checkRateLimit() on the client of the tool, then what follows its answer
\* (ifDenied, ifAdmitted: the early return, or the argument checks and the
\* prompt), then makeApiCall(request) on that client, whose tryConsume
\* reads Date.now() again: the same value or a later one
RunHandler(c, tool, args, via, ifDenied, ifAdmitted, request) ==
    \E now1 \in HandlerClockReadings(ClientOf(tool)) :
        LET cl == ClientOf(tool)
            ok == TryConsumeResult(tokens[cl], lastRefill[cl], now1)
            tokens1 == TryConsumeTokens(tokens[cl], lastRefill[cl], now1)
            hist1 == IF recording
                     THEN RecordTryConsume(hist, tokens[cl], lastRefill[cl],
                                           now1)
                     ELSE hist
            count1 == Min(tryCount + 1, MaxTryCount)
            step == IF ok THEN ifAdmitted ELSE ifDenied
            slot == [IdleTool EXCEPT
                       !.tool = tool, !.args = args, !.via = via,
                       !.afterStop = server.isShuttingDown,
                       !.checked = IF ok THEN "yes" ELSE "no",
                       !.validated = step.validated,
                       !.composed = step.composed]
        IN IF step.kind = "call"
           THEN /\ \E now2 \in {reading \in HandlerClockReadings(cl) :
                                    reading >= now1} :
                     /\ tokens' = [tokens EXCEPT ![cl] =
                           TryConsumeTokens(tokens1, now1, now2)]
                     /\ lastRefill' = [lastRefill EXCEPT ![cl] = now2]
                     /\ hist' = IF recording
                                THEN RecordTryConsume(hist1, tokens1, now1, now2)
                                ELSE hist
                     /\ calls' = [calls EXCEPT ![c] =
                           EnterMakeApiCall(cl, tokens1, now1, now2,
                                            request,
                                            Min(count1 + 1, MaxTryCount))]
                /\ tryCount' = Min(count1 + 1, MaxTryCount)
                /\ tools' = [tools EXCEPT ![c] =
                      [slot EXCEPT !.pc = "awaiting", !.called = TRUE]]
           ELSE /\ tokens' = [tokens EXCEPT ![cl] = tokens1]
                /\ lastRefill' = [lastRefill EXCEPT ![cl] = now1]
                /\ hist' = hist1
                /\ tryCount' = count1
                /\ calls' = calls
                /\ tools' = [tools EXCEPT ![c] =
                      IF step.kind = "read"
                      THEN [slot EXCEPT !.pc = "reading"]
                      ELSE Leave(slot, step)]

\* handler(args) of tool, its arguments given by their classes
StartHandler(c, tool, args, via) ==
    RunHandler(c, tool, args, via,
               AfterCheckRateLimit(tool, args, FALSE),
               AfterCheckRateLimit(tool, args, TRUE),
               HandlerRequest(tool))

\* a tool-call request arrives at the request handler of the server, which
\* is connected to its transport
CallToolRequest(c) ==
    /\ Alive
    /\ server.connect = "connected"
    /\ IsFree(tools[c])
    /\ \E request \in ServerRequests :
         LET name == request.name
             args == request.args
             Reject(error) ==
                /\ tools' = [tools EXCEPT ![c] =
                      [IdleTool EXCEPT !.pc = "rejected", !.tool = name,
                                       !.args = args, !.via = "server",
                                       !.afterStop = server.isShuttingDown,
                                       !.endedAfterStop = server.isShuttingDown,
                                       !.error = error.message,
                                       !.code = error.code]]
                /\ UNCHANGED <<limiterVars, hist, tryCount, calls>>
         IN IF ShutdownGate(server)
            THEN Reject(McpError("InternalError", "Server is shutting down"))
            ELSE IF name \notin DispatchedTools(server.dispatcher)
            THEN Reject(DispatchCatch(name,
                    McpError("MethodNotFound", "Tool not found: " \o name)))
            ELSE IF DispatchCheck(server.dispatcher, name, args) # ""
            THEN Reject(DispatchCatch(name,
                    McpError("InvalidParams",
                             DispatchCheck(server.dispatcher, name, args))))
            ELSE StartHandler(c, name, args, "server")
    /\ UNCHANGED <<fixedVars, server>>

\* the messages explored for the error fs.promises.readFile rejects with
\* (the path is 'a'): a directory, a file removed and a file made
\* unreadable after validateFilePath looked
FsErrorMessages ==
    {"EISDIR: illegal operation on a directory, read",
     "ENOENT: no such file or directory, open 'a'",
     "EACCES: permission denied, open 'a'"}

\* what validateFilePath and readFileContent meet: the build and the file
\* system
FileSystems ==
    [dirname : BOOLEAN,    \* __dirname is defined (a CommonJS build)
     inside : BOOLEAN,     \* the resolved path starts with the server root
     exists : BOOLEAN,     \* fs.existsSync(resolvedPath)
     readable : BOOLEAN,   \* fs.accessSync(resolvedPath, R_OK) returns
     read : {"content"} \cup FsErrorMessages] \* how readFile settles

\* validateFilePath(path): path.resolve throws for a path that is no string,
\* and the catch block reports the message of whatever was thrown
ValidateFilePath(path, fs) ==
    IF ~IsString(path)
    THEN [isValid |-> FALSE,
          error |-> "The \"paths[0]\" argument must be of type string. Received type number (1)"]
    ELSE IF ~fs.dirname
    THEN [isValid |-> FALSE, error |-> "__dirname is not defined"]
    ELSE IF ~fs.inside
    THEN [isValid |-> FALSE,
          error |-> "Access denied: Path is outside the server root directory"]
    ELSE IF ~fs.exists
    THEN [isValid |-> FALSE, error |-> "File not found"]
    ELSE IF ~fs.readable
    THEN [isValid |-> FALSE, error |-> "Permission denied: Cannot read file"]
    ELSE [isValid |-> TRUE, error |-> UNDEFINED]

\* readFileContent(path): the error of the validation, or the content, or
\* the message of the error readFile rejected with behind a prefix
ReadFileContent(path, fs) ==
    IF ~ValidateFilePath(path, fs).isValid
    THEN Thrown(ValidateFilePath(path, fs).error)
    ELSE IF fs.read = "content"
    THEN Returned(ArgumentText)
    ELSE Thrown("Failed to read file: " \o fs.read)

\* the exported handler of a tool is called with any arguments
InvokeHandler(c) ==
    /\ Alive
    /\ IsFree(tools[c])
    /\ \E tool \in ToolNames : \E args \in ArgsOf(tool) :
         StartHandler(c, tool, args, "direct")
    /\ UNCHANGED <<fixedVars, server>>

\* the awaited readFileContent settles: with the content, and the handler
\* goes on to makeApiCall, or with an error
ReadFileSettles(c) ==
    /\ Alive
    /\ tools[c].pc = "reading"
    /\ \E fs \in FileSystems :
         LET settled == ReadFileContent(tools[c].args.fields.file_path, fs)
         IN IF settled.kind = "throw"
            THEN /\ tools' = [tools EXCEPT ![c] =
                       Leave([@ EXCEPT !.read = "failed"],
                             [kind |-> "return",
                              response |-> ErrorResponse(
                                 "Error reading file: " \o settled.text)])]
                 /\ UNCHANGED <<limiterVars, hist, tryCount, calls>>
            ELSE \E now \in HandlerClockReadings("deepseek") :
                 /\ tokens' = [tokens EXCEPT !["deepseek"] =
                       TryConsumeTokens(tokens["deepseek"],
                                        lastRefill["deepseek"], now)]
                 /\ lastRefill' = [lastRefill EXCEPT !["deepseek"] = now]
                 /\ hist' = IF recording
                            THEN RecordTryConsume(hist, tokens["deepseek"],
                                                  lastRefill["deepseek"], now)
                            ELSE hist
                 /\ tryCount' = Min(tryCount + 1, MaxTryCount)
                 /\ calls' = [calls EXCEPT ![c] =
                       EnterMakeApiCall("deepseek", tokens["deepseek"],
                                        lastRefill["deepseek"], now,
                                        HandlerRequest(tools[c].tool),
                                        tryCount')]
                 /\ tools' = [tools EXCEPT ![c] =
                       [@ EXCEPT !.pc = "awaiting", !.read = "content",
                                 !.composed = TRUE, !.called = TRUE]]
    /\ UNCHANGED <<fixedVars, server>>

\* the awaited makeApiCall has settled and the handler resumes
HandlerResumes(c) ==
    /\ Alive
    /\ tools[c].pc = "awaiting"
    /\ calls[c].pc \in {"done", "threw"}
    /\ tools' = [tools EXCEPT ![c] =
          Leave([@ EXCEPT !.result = calls[c].result],
                IF calls[c].pc = "done"
                THEN [kind |-> "return",
                      response |-> FromResult(@.tool, calls[c].result[1])]
                ELSE HandlerCatch(@.tool, calls[c].observed.message))]
    \* the invocation of makeApiCall is over
    /\ calls' = [calls EXCEPT ![c] = IdleCall]
    /\ UNCHANGED <<fixedVars, limiterVars, hist, tryCount, server>>

\* stop() up to its await or its early return
MutStopUnguarded(s) ==
    [s EXCEPT !.isShuttingDown = TRUE, !.phase = "closing", !.closes = @ + 1]

Stop(s) ==
    IF s.isShuttingDown
    THEN s
    ELSE [s EXCEPT !.isShuttingDown = TRUE, !.phase = "closing",
                   !.closes = @ + 1]

\* SIGINT or SIGTERM, an uncaught exception or an unhandled rejection; the
\* handler of each is: await this.stop(); process.exit(...). stop() sets
\* the flag and awaits server.close(); when the flag is set already, stop()
\* returns at once and the process exits
Signal ==
    /\ Alive
    /\ server' = IF Stop(server) = server
                 THEN [server EXCEPT !.phase = "exited"]
                 ELSE Stop(server)
    /\ UNCHANGED <<fixedVars, limiterVars, hist, tryCount, calls, tools>>

\* the awaited server.connect() of start() settles: the server runs on its
\* transport, or connect() rejected and start() calls process.exit(1)
StartSettles ==
    /\ Alive
    /\ server.connect = "pending"
    /\ \/ server' = [server EXCEPT !.connect = "connected"]
       \/ server' = [server EXCEPT !.phase = "exited"]
    /\ UNCHANGED <<fixedVars, limiterVars, hist, tryCount, calls, tools>>

\* the awaited server.close() settles and the process exits
CloseSettles ==
    /\ Alive
    /\ server.phase = "closing"
    /\ server' = [server EXCEPT !.phase = "exited", !.closed = TRUE]
    /\ UNCHANGED <<fixedVars, limiterVars, hist, tryCount, calls, tools>>

\* one client object on its own
Next ==
    \/ \E c \in Calls : MakeApiCall(c, ClientUnderStudy)
    \/ \E c \in Calls : Respond(c)
    \/ \E c \in Calls : TimerFire(c)
    \/ CheckRateLimit(ClientUnderStudy)

Spec == Init /\ [][Next]_vars

---------------------------------------------------------------------------
(* The rate limiter on its own, with its history recorded: the client's *)
(* RateLimiter(50, 10), the small configurations and a one-token-per-     *)
(* second bucket, driven through the exported checkRateLimit.             *)

InitLimiter ==
    /\ variant = "openai"
    /\ \E cfg \in LimiterConfigs \cup {<<2, 1>>, <<50, 10>>} :
         /\ maxTokens = cfg[1]
         /\ refillRate = cfg[2]
         /\ tokens = [cl \in Clients |-> cfg[1]]
    \* the client followed was constructed at any reading, the other at 0
    /\ \E reading \in ClockReadings :
         lastRefill = [cl \in Clients |->
                          IF cl = ClientUnderStudy THEN reading ELSE 0]
    /\ maxRetries = 1
    /\ calls = [c \in Calls |-> IdleCall]
    /\ tryCount = 0
    /\ recording = TRUE
    /\ hist = InitHist(lastRefill[ClientUnderStudy])
    /\ requests = {DefaultRequest}
    /\ server = RunningServer
    /\ tools = [c \in Calls |-> IdleTool]
    /\ utilCall = NoUtilCall

NextLimiter == CheckRateLimit(ClientUnderStudy)

SpecLimiter == InitLimiter /\ [][NextLimiter]_vars

\* The client with concurrent callers and the limiter history recorded.
InitAdmission ==
    /\ variant = "openai"
    /\ \E cfg \in LimiterConfigs :
         /\ maxTokens = cfg[1]
         /\ refillRate = cfg[2]
         /\ tokens = [cl \in Clients |-> cfg[1]]
    \* the client followed was constructed at any reading, the other at 0
    /\ \E reading \in ClockReadings :
         lastRefill = [cl \in Clients |->
                          IF cl = ClientUnderStudy THEN reading ELSE 0]
    /\ maxRetries = 1
    /\ calls = [c \in Calls |-> IdleCall]
    /\ tryCount = 0
    /\ recording = TRUE
    /\ hist = InitHist(lastRefill[ClientUnderStudy])
    /\ requests = {DefaultRequest}
    /\ server = RunningServer
    /\ tools = [c \in Calls |-> IdleTool]
    /\ utilCall = NoUtilCall

SpecAdmission == InitAdmission /\ [][Next]_vars

\* One caller, its argument list any of those explored, two attempts
\* allowed; the limiter admits the first call, which is the one observed.
\* The client followed is called with an argument list its makeApiCall
\* takes.
InitCompose ==
    /\ variant \in Variants
    /\ maxTokens = 1 /\ refillRate = 0
    /\ tokens = [cl \in Clients |-> 1]
    /\ lastRefill = [cl \in Clients |-> 0]
    /\ maxRetries = 2
    /\ calls = [c \in Calls |-> IdleCall]
    /\ tryCount = 0
    /\ recording = FALSE
    /\ hist = InitHist(0)
    /\ requests \in {{r} : r \in AllRequests(VariantOf(ClientUnderStudy))}
    /\ server = RunningServer
    /\ tools = [c \in Calls |-> IdleTool]
    /\ utilCall = NoUtilCall

NextCompose ==
    \/ MakeApiCall("c1", ClientUnderStudy)
    \/ Respond("c1")
    \/ TimerFire("c1")

SpecCompose == InitCompose /\ [][NextCompose]_vars

\* The server with its tool handlers on top of the client.
InitServer ==
    /\ variant \in {"openai", "reasoner"}
    /\ maxTokens = 4 /\ refillRate = 0
    /\ tokens = [cl \in Clients |-> 4]
    /\ lastRefill = [cl \in Clients |-> 0]
    /\ maxRetries = 1
    /\ calls = [c \in Calls |-> IdleCall]
    /\ tryCount = 0
    /\ recording = FALSE
    /\ hist = InitHist(0)
    /\ requests = {DefaultRequest}
    \* server.ts goes with OpenRouterClient, the server of part_002 with
    \* either client behind second_opinion
    /\ \E dispatcher \in Dispatchers :
         /\ dispatcher = "server.ts" => variant = "openai"
         /\ server = [StartingServer EXCEPT !.dispatcher = dispatcher]
    /\ tools = [c \in Calls |-> IdleTool]
    /\ utilCall = NoUtilCall

NextServer ==
    \/ StartSettles
    \/ \E c \in Calls : CallToolRequest(c)
    \/ \E c \in Calls : ReadFileSettles(c)
    \/ \E c \in Calls : HandlerResumes(c)
    \/ \E c \in Calls : Respond(c)
    \/ \E c \in Calls : TimerFire(c)
    \/ Signal
    \/ CloseSettles

SpecServer == InitServer /\ [][NextServer]_vars

\* The exported handlers called one invocation after the other with any
\* arguments, on top of the client.
InitTools ==
    /\ variant \in Versions
    /\ \E cfg \in LimiterConfigs :
         /\ maxTokens = cfg[1]
         /\ refillRate = cfg[2]
         /\ tokens = [cl \in Clients |-> cfg[1]]
    /\ lastRefill = [cl \in Clients |-> 0]
    /\ maxRetries = 2
    /\ calls = [c \in Calls |-> IdleCall]
    /\ tryCount = 0
    /\ recording = FALSE
    /\ hist = InitHist(0)
    /\ requests = {DefaultRequest}
    /\ server = RunningServer
    /\ tools = [c \in Calls |-> IdleTool]
    /\ utilCall = NoUtilCall

NextTools ==
    \/ InvokeHandler("c1")
    \/ ReadFileSettles("c1")
    \/ HandlerResumes("c1")
    \/ Respond("c1")
    \/ TimerFire("c1")

SpecTools == InitTools /\ [][NextTools]_vars

---------------------------------------------------------------------------
(* Claims *)

IsDone(c) == calls[c].pc = "done"
ResultOf(c) == calls[c].result[1]
Is429(te) == te.kind = "http" /\ te.status = 429
IsFailure(te) == te.kind \in {"http", "timeout", "refused", "setup"}

\* C1: the stored token count satisfies 0 <= tokens <= capacity after every
\* tryConsume call, at any sequence of clock readings.
C1_TokensWithinBounds ==
    \A cl \in Clients : 0 <= tokens[cl] /\ tokens[cl] <= maxTokens

\* C2: a call whose tryConsume returned false has returned the 'Rate limit
\* exceeded...' error result without any network attempt; with capacity 1
\* and refill rate 0 the first call is admitted into the attempt flow and
\* every later one is denied.
C2_LocalAdmissionDenial ==
    \A c \in Calls :
        /\ calls[c].admitted = "no" =>
              /\ IsDone(c)
              /\ calls[c].netCalls = 0
              /\ calls[c].delays = <<>>
              /\ calls[c].result =
                    <<[text |-> "", isError |-> TRUE,
                       errorMessage |-> "Rate limit exceeded. Please try again later."]>>
        /\ (maxTokens = 1 /\ refillRate = 0) =>
              /\ calls[c].ticket = 1 =>
                    /\ calls[c].admitted = "yes"
                    /\ maxRetries >= 1 => calls[c].netCalls >= 1
              /\ calls[c].ticket >= 2 =>
                    calls[c].admitted = "no" /\ calls[c].netCalls = 0

C2_Witness ==
    /\ maxTokens = 1 /\ refillRate = 0 /\ maxRetries >= 1
    /\ calls["c1"].ticket = 1 /\ calls["c1"].netCalls >= 1
    /\ calls["c2"].ticket = 2 /\ calls["c2"].admitted = "no" /\ IsDone("c2")

\* C3: one makeApiCall performs at most maxRetries network attempts.
C3_BoundedAttempts ==
    \A c \in Calls : calls[c].netCalls <= maxRetries

C3_Witness ==
    \E c \in Calls :
        IsDone(c) /\ maxRetries >= 2 /\ calls[c].netCalls = maxRetries

\* the delays 1000 * 2^k for k = 0, 1, 2, ... written out
ExpectedDelays == <<1000, 2000, 4000, 8000, 16000, 32000, 64000>>

\* C4: in the SDK based client every attempt that failed with 429 is followed
\* by a wait, the k-th wait (0-based) being 1000 * 2^k ms; with maxRetries = 4
\* and responses 429, 429, 429, success the call succeeds on its 4th attempt
\* after waits of 1000, 2000 and 4000 ms.
C4_BackoffSchedule ==
    variant # "axios" =>
        \A c \in Calls :
            /\ Len(calls[c].delays) = calls[c].n429
            /\ calls[c].delays = SubSeq(ExpectedDelays, 1, Len(calls[c].delays))
            /\ ( /\ maxRetries = 4
                 /\ IsDone(c)
                 /\ calls[c].n429 = 3
                 /\ calls[c].lastEvent = [kind |-> "ok", status |-> 200,
                                          body |-> "content"] )
               => /\ calls[c].netCalls = 4
                  /\ calls[c].delays = <<1000, 2000, 4000>>
                  /\ ResultOf(c).text = "Hello" /\ ~ResultOf(c).isError

C4_Witness ==
    \E c \in Calls :
        /\ variant = "openai" /\ maxRetries = 4 /\ IsDone(c)
        /\ calls[c].n429 = 3 /\ calls[c].netCalls = 4
        /\ ~ResultOf(c).isError

\* C5: in the axios based client a call whose last response was a 429 has
\* been retried up to the configured limit.
C5_Axios429Retried ==
    \A c \in Calls :
        (variant = "axios" /\ IsDone(c) /\ Is429(calls[c].lastEvent))
            => calls[c].netCalls = maxRetries

\* C6: once an attempt has failed with anything other than HTTP 429 the call
\* has returned an error result, with no attempt and no backoff delay after
\* the failed one.
C6_FatalNotRetried ==
    \A c \in Calls :
        (IsFailure(calls[c].lastEvent) /\ ~Is429(calls[c].lastEvent)) =>
            /\ IsDone(c)
            /\ ResultOf(c).isError
            /\ calls[c].n429 = calls[c].netCalls - 1
            /\ Len(calls[c].delays) = calls[c].netCalls - 1

C6_Witness ==
    \E c \in Calls :
        /\ IsDone(c)
        /\ calls[c].lastEvent.kind = "http" /\ calls[c].lastEvent.status = 500
        /\ calls[c].netCalls = 2
        /\ maxRetries >= 3

\* C7: when all maxRetries attempts failed with 429 the call has returned an
\* error result whose message is that of the error of the last attempt.
C7_ExhaustionLastError ==
    \A c \in Calls :
        ( /\ IsDone(c)
          /\ maxRetries >= 1
          /\ calls[c].netCalls = maxRetries
          /\ calls[c].n429 = maxRetries )
        => /\ ResultOf(c).isError
           /\ ResultOf(c).errorMessage = calls[c].observed.message

C7_Witness ==
    \E c \in Calls :
        /\ IsDone(c) /\ maxRetries = 3 /\ calls[c].n429 = 3
        /\ calls[c].observed.message = "429 status code (no body)"

\* C8: every returned result is either a success (isError false, no
\* errorMessage) or an error (isError true, empty text, errorMessage present).
C8_ResultWellFormed ==
    \A c \in Calls :
        IsDone(c) =>
            \/ /\ {"text", "isError"} \subseteq DOMAIN ResultOf(c)
               /\ "errorMessage" \notin DOMAIN ResultOf(c)
               /\ ResultOf(c).isError = FALSE
            \/ /\ DOMAIN ResultOf(c) = {"text", "isError", "errorMessage"}
               /\ ResultOf(c).isError = TRUE
               /\ ResultOf(c).text = ""

\* the reasoner client has returned a success that carries reasoning
C8_Witness ==
    /\ variant = "reasoner" /\ IsDone("c1")
    /\ ResultOf("c1") = [text |-> "Hello", reasoning |-> "r", isError |-> FALSE]

\* C9: no makeApiCall ends by throwing: denial, exhausted retries, transport
\* failures and failures while reading the response all end in a result.
C9_NeverThrows ==
    \A c \in Calls : calls[c].pc # "threw"

C9_Witness ==
    /\ IsDone("c1") /\ calls["c1"].admitted = "yes"
    /\ calls["c1"].lastEvent.kind = "ok" /\ ResultOf("c1").isError
    /\ IsDone("c2") /\ calls["c2"].admitted = "no"

\* the error kind a transport failure belongs to
TaxonomyKind(te) ==
    CASE te.kind = "http" /\ te.status = 401 -> "AuthenticationFailed"
      [] te.kind = "http" /\ te.status = 429 -> "RemoteRateLimited"
      [] te.kind = "http" /\ te.status = 500 -> "ServerError"
      [] te.kind \in {"timeout", "refused"} -> "Timeout/NoResponse"
      [] OTHER -> "UnknownError"

EndedInFailure(c) == IsDone(c) /\ IsFailure(calls[c].lastEvent)

\* C10: a call that ended in a transport failure (401, 429, 500, timeout,
\* connection refused, other) has an error result with a non-empty message,
\* and failures of different kinds never share a message.
C10_ErrorTaxonomy ==
    \A c \in Calls :
        EndedInFailure(c) =>
            /\ ResultOf(c).isError
            /\ ResultOf(c).errorMessage # ""
            /\ \A d \in Calls :
                 ( /\ EndedInFailure(d)
                   /\ TaxonomyKind(calls[c].lastEvent) # TaxonomyKind(calls[d].lastEvent) )
                 => ResultOf(c).errorMessage # ResultOf(d).errorMessage

C10_Witness ==
    /\ variant = "axios"
    /\ EndedInFailure("c1") /\ calls["c1"].lastEvent.status = 401
    /\ EndedInFailure("c2") /\ calls["c2"].lastEvent.kind = "timeout"

\* the messages the client itself words
StableMessages ==
    { "Rate limit exceeded. Please try again later.",
      "Unknown error occurred",
      "Max retries exceeded",
      "Authentication failed: Invalid API key",
      "Deepseek API server error. Please try again later.",
      "No response received from Deepseek API" }

\* C11: the errorMessage of every error result is one of a fixed set of
\* stable messages, never the text of the exception that was caught.
C11_NoRawExceptionText ==
    \A c \in Calls :
        (IsDone(c) /\ ResultOf(c).isError)
            => ResultOf(c).errorMessage \in StableMessages

\* C12: a 2xx response without choices or without message content ends in an
\* error result, never in a success.
C12_MalformedIsError ==
    \A c \in Calls :
        ( /\ IsDone(c)
          /\ calls[c].lastEvent.kind = "ok"
          /\ calls[c].lastEvent.body \notin {"content", "reasoned"} )
        => ResultOf(c).isError

\* C13: every tryConsume first refills, tokens = min(capacity, tokens +
\* floor(elapsedSeconds * refillRate)) with lastRefill = now, then answers
\* true and takes exactly one token iff the refilled count is >= 1, and
\* otherwise answers false and leaves the refilled count.
C13_TryConsumeSemantics ==
    [][ LET now == lastRefill'[ClientUnderStudy]
            added == ((now - lastRefill[ClientUnderStudy]) * refillRate) \div 1000
            refilled == IF tokens[ClientUnderStudy] + added <= maxTokens
                        THEN tokens[ClientUnderStudy] + added ELSE maxTokens
        IN IF refilled >= 1
           THEN tokens'[ClientUnderStudy] = refilled - 1 /\ hist'.answer = "yes"
           ELSE tokens'[ClientUnderStudy] = refilled /\ hist'.answer = "no" ]_vars

C13_Witness ==
    /\ maxTokens = 2 /\ refillRate = 10
    /\ hist.emptyBefore /\ hist.gap = 100
    /\ hist.answer = "yes" /\ hist.burst = 1 /\ tokens[ClientUnderStudy] = 0

\* C14: with makeApiCall and checkRateLimit callers interleaved on one
\* client, the number of admitted checks never exceeds capacity +
\* floor(refillRate * seconds elapsed since the limiter was created), the
\* elapsed time being the latest time its clock has shown.
C14_AdmittedBound ==
    LET bound == maxTokens +
                 (((hist.maxReading - hist.created) * refillRate) \div 1000)
    IN bound < MaxAdmitted => hist.admitted <= bound

C14_Witness ==
    /\ maxTokens = 2 /\ refillRate = 10
    /\ hist.maxReading - hist.created = 100
    /\ hist.admitted = 3
    /\ hist.answer = "no"
    /\ calls["c1"].pc = "backoff" /\ calls["c2"].pc = "attempt"

\* a tryConsume made 1.0 s after the previous one found the bucket of the
\* client's RateLimiter(50, 10) empty; burst counts the admissions since
AfterDrainAndOneSecond ==
    /\ maxTokens = 50 /\ refillRate = 10
    /\ hist.emptyBefore /\ hist.gap = 1000

\* C17 as claimed: 1.0 s after the bucket was emptied at least 9 calls made
\* immediately one after another are admitted, but not 10.
C17_AtLeastNineNotTen ==
    AfterDrainAndOneSecond =>
        /\ hist.burst <= 9
        /\ hist.answer = "no" => hist.burst >= 9

\* C17 as amended: 1.0 s after the bucket was emptied exactly 10 calls made
\* immediately one after another are admitted: a call is denied only once 10
\* have been admitted, and no 11th is admitted.
C17_ExactlyTen ==
    AfterDrainAndOneSecond =>
        /\ hist.burst <= 10
        /\ hist.answer = "no" => hist.burst = 10

C17_Witness ==
    /\ AfterDrainAndOneSecond
    /\ hist.burst = 10 /\ hist.answer = "no" /\ tokens[ClientUnderStudy] = 0

\* C15: while a call is suspended in its backoff delay nothing of the client
\* is blocked: another call can start (its admission check runs), an
\* attempt of another call can settle, and checkRateLimit can run.
C15_BackoffIsolation ==
    \A c \in Calls :
        calls[c].pc = "backoff" =>
            /\ ENABLED CheckRateLimit(ClientUnderStudy)
            /\ \A d \in Calls \ {c} :
                 /\ calls[d].pc \in {"idle", "done", "threw"}
                        => ENABLED MakeApiCall(d, ClientUnderStudy)
                 /\ calls[d].pc = "attempt" => ENABLED Respond(d)

\* a call that started after the waiting one has been admitted, has made its
\* attempt and has returned, the first one still waiting
C15_Witness ==
    /\ calls["c1"].pc = "backoff" /\ calls["c1"].ticket = 1
    /\ calls["c2"].pc = "done" /\ calls["c2"].ticket = 2
    /\ calls["c2"].admitted = "yes" /\ calls["c2"].netCalls = 1
    /\ ~calls["c2"].result[1].isError

\* C16: the message list sent on every attempt of a call is the system
\* message with the sanitized system prompt, then the caller's previous
\* turns in their order with role and content as given, then the user
\* message with the sanitized prompt.
C16_RequestComposition ==
    \A c \in Calls :
        calls[c].netCalls >= 1 =>
            LET r == calls[c].request
                turns == IF "previousMessages" \in DOMAIN r
                         THEN r.previousMessages ELSE <<>>
                system == IF "systemPrompt" \in DOMAIN r
                          THEN r.systemPrompt ELSE DefaultSystemPrompt
                sent == calls[c].sent
            IN /\ Len(sent) = Len(turns) + 2
               /\ sent[1] = [role |-> "system", content |-> SanitizeInput(system)]
               /\ \A i \in 1..Len(turns) : sent[i + 1] = turns[i]
               /\ sent[Len(sent)] =
                     [role |-> "user", content |-> SanitizeInput(r.prompt)]

\* the second attempt of a call given two previous turns, a prompt and a
\* system prompt that the sanitizer changes
C16_Witness ==
    /\ calls["c1"].pc = "attempt" /\ calls["c1"].netCalls = 2
    /\ "previousMessages" \in DOMAIN calls["c1"].request
    /\ Len(calls["c1"].request.previousMessages) = 2
    /\ calls["c1"].request.prompt = <<" ", "{", "}">>
    /\ calls["c1"].sent[4].content = <<"\\", "{", "\\", "}">>
    /\ calls["c1"].sent[1].content # calls["c1"].request.systemPrompt

\* C18: once the shutting-down flag is set, a tool-call request that
\* arrives is rejected with 'Server is shutting down' and neither the
\* limiter nor any call is touched for it; setting the flag changes no
\* call and no handler, and while the process lives a call in flight goes
\* on: its attempt can settle, its backoff timer can fire, its handler can
\* resume.
C18_ShutdownGating ==
    /\ [](\A c \in Calls :
            (server.isShuttingDown /\ Alive) =>
                /\ calls[c].pc = "attempt" => ENABLED Respond(c)
                /\ calls[c].pc = "backoff" => ENABLED TimerFire(c)
                /\ (tools[c].pc = "awaiting" /\ calls[c].pc \in {"done", "threw"})
                      => ENABLED HandlerResumes(c))
    /\ [][ /\ \A c \in Calls :
                (server.isShuttingDown /\ IsFree(tools[c]) /\ tools'[c] # tools[c])
                    => /\ tools'[c].pc = "rejected"
                       /\ tools'[c].error = "Server is shutting down"
                       /\ tools'[c].checked = "none"
                       /\ tokens' = tokens /\ lastRefill' = lastRefill
                       /\ tryCount' = tryCount
                       /\ calls' = calls
           /\ (server'.isShuttingDown /\ ~server.isShuttingDown)
                 => calls' = calls /\ tools' = tools ]_vars

\* a request that arrived before the flag was set has returned the model's
\* text after it, and a request that arrived after it was rejected
C18_Witness ==
    /\ server.isShuttingDown
    /\ tools["c1"].pc = "returned" /\ ~tools["c1"].afterStop
    /\ tools["c1"].endedAfterStop
    /\ tools["c1"].response = <<[content |-> <<[type |-> "text", text |-> "Hello"]>>]>>
    /\ tools["c2"].pc = "rejected" /\ tools["c2"].afterStop
    /\ tools["c2"].error = "Server is shutting down"

\* C19: no tool handler ends by throwing, and what it returns is a
\* ToolResponse with one text entry that has isError = true unless
\* makeApiCall returned a success, whose text it then carries.
C19_HandlersNeverThrow ==
    \A c \in Calls :
        /\ tools[c].pc # "threw"
        /\ tools[c].pc = "returned" =>
              LET r == tools[c].response[1] IN
              /\ Len(r.content) = 1
              /\ r.content[1].type = "text"
              /\ DOMAIN r.content[1] = {"type", "text"}
              /\ \/ /\ DOMAIN r = {"content", "isError"}
                    /\ r.isError = TRUE
                 \/ /\ "isError" \notin DOMAIN r
                    /\ tools[c].called
                    /\ tools[c].result # <<>>
                    /\ tools[c].result[1].isError = FALSE
                    /\ r.content[1].text = tools[c].result[1].text

\* an exception thrown while the prompt was composed has become an error
\* response
C19_Witness ==
    /\ tools["c1"].pc = "returned"
    /\ tools["c1"].tool = "writing_feedback"
    /\ tools["c1"].composed /\ ~tools["c1"].called
    /\ tools["c1"].response =
          <<[content |-> <<[type |-> "text",
                            text |-> "Error processing writing feedback: Missing required variables: type_specific_prompts"]>>,
             isError |-> TRUE]>>

\* C20: a handler whose checkRateLimit() returned false returns the rate
\* limit error response in that same step, without reaching the argument
\* checks or the prompt composition and without any makeApiCall: no call
\* changes.
C20_EarlyRejection ==
    [][\A c \in Calls :
          (tools'[c] # tools[c] /\ tools'[c].checked = "no") =>
              /\ tools'[c].pc = "returned"
              /\ tools'[c].response =
                    <<[content |-> <<[type |-> "text",
                                      text |-> "Rate limit exceeded. Please try again later."]>>,
                       isError |-> TRUE]>>
              /\ ~tools'[c].validated
              /\ ~tools'[c].composed
              /\ ~tools'[c].called
              /\ calls' = calls]_vars

\* a handler has been turned away by checkRateLimit()
C20_Witness ==
    /\ tools["c1"].pc = "returned"
    /\ tools["c1"].checked = "no"
    /\ tools["c1"].tool = "code_review"

\* C26: a backoff delay is waited only when another attempt follows it: a
\* call that has returned has waited fewer delays than it made attempts.
C26_NoDelayAfterLastAttempt ==
    \A c \in Calls :
        (IsDone(c) /\ calls[c].netCalls >= 1) =>
            Len(calls[c].delays) < calls[c].netCalls

\* C28: fractional refill credit is discarded: while every tryConsume call
\* (admitted or rejected) has come less than 1/refillRate seconds after the
\* previous one, no token has been added, however much time has elapsed:
\* the bucket holds no more than its capacity less the admissions.
C28_FractionsDiscarded ==
    (hist.close /\ refillRate > 0 /\ hist.admitted < MaxAdmitted) =>
        tokens[ClientUnderStudy] <= maxTokens - hist.admitted

\* one second after construction a one-token-per-second bucket that was
\* emptied by closely spaced calls rejects
C28_Witness ==
    /\ refillRate = 1 /\ hist.close
    /\ hist.maxReading - hist.created >= 1000
    /\ hist.emptyBefore /\ hist.gap = 900
    /\ hist.answer = "no" /\ tokens[ClientUnderStudy] = 0

---------------------------------------------------------------------------
(* A caller that keeps calling checkRateLimit while time advances: every  *)
(* call reads a later clock than the one before, and calls never cease.   *)

InitStarve ==
    /\ variant = "openai"
    /\ \E cfg \in {<<2, 1>>, <<2, 10>>} :
         /\ maxTokens = cfg[1]
         /\ refillRate = cfg[2]
         /\ tokens = [cl \in Clients |-> cfg[1]]
    /\ lastRefill = [cl \in Clients |-> 0]
    /\ maxRetries = 1
    /\ calls = [c \in Calls |-> IdleCall]
    /\ tryCount = 0
    /\ recording = TRUE
    /\ hist = InitHist(0)
    /\ requests = {DefaultRequest}
    /\ server = RunningServer
    /\ tools = [c \in Calls |-> IdleTool]
    /\ utilCall = NoUtilCall

\* the exported checkRateLimit(), called gap ms after the previous reading
PollRateLimit ==
    /\ Alive
    /\ \E gap \in ClockGaps :
         LET cl == ClientUnderStudy
             now == lastRefill[cl] + gap
         IN /\ tokens' = [tokens EXCEPT ![cl] =
                  TryConsumeTokens(tokens[cl], lastRefill[cl], now)]
            /\ lastRefill' = [lastRefill EXCEPT ![cl] = now % ClockCycle]
            /\ hist' = RecordTryConsume(hist, tokens[cl], lastRefill[cl], now)
    /\ tryCount' = Min(tryCount + 1, MaxTryCount)
    /\ UNCHANGED <<fixedVars, calls, serverVars>>

NextStarve == PollRateLimit

\* the caller keeps calling: a call that is possible is eventually made
SpecStarve == InitStarve /\ [][NextStarve]_vars /\ WF_vars(PollRateLimit)

\* C29 (as stated): with refillRate > 0, a caller that finds the bucket
\* empty and keeps calling while time advances is eventually admitted again,
\* whatever the spacing of its calls.
C29_EventuallyAdmitted ==
    (refillRate > 0 /\ tokens[ClientUnderStudy] = 0 /\ hist.answer = "no")
        ~> (hist.answer = "yes")

\* C29 (amended): with refillRate > 0, a caller that finds the bucket empty
\* and keeps calling while time advances is eventually admitted again,
\* provided that again and again one of its calls comes at least
\* 1/refillRate seconds after the call before it.
C29_AdmittedAfterFullInterval ==
    ([]<>(\E gap \in {hist.gap} : gap * refillRate >= 1000)) =>
        ((refillRate > 0 /\ tokens[ClientUnderStudy] = 0 /\ hist.answer = "no")
            ~> (hist.answer = "yes"))

\* the emptied one-token-per-second bucket admits a call made one second
\* after the previous one
C29_Witness ==
    /\ refillRate = 1 /\ hist.admitted >= 3
    /\ hist.emptyBefore /\ hist.gap = 1000
    /\ hist.answer = "yes" /\ tokens[ClientUnderStudy] = 0

---------------------------------------------------------------------------
(* The functions of utils/prompt.ts on their own: a call is given its     *)
(* arguments at the start and the function is then applied to them.       *)

\* everything but utilCall
apiVars == <<configVars, recording, requests, limiterVars, calls, tryCount,
             hist, serverVars>>

\* the outcome of a call that has not been made yet
Pending == [kind |-> "pending", text |-> <<>>]

\* the variables objects explored: a and b, each absent or with a string,
\* a number or a boolean
VariablesA == { <<"a">> :> StringValue(<<"{", "b", "}">>),
                <<"a">> :> NumberValue(7) }
VariablesB == { <<"b">> :> StringValue(<<"a">>),
                <<"b">> :> BooleanValue(TRUE) }
VariableSets ==
    {NoVariables} \cup VariablesA \cup VariablesB
        \cup { va @@ vb : va \in VariablesA, vb \in VariablesB }

\* 'Hello {name}' with name 'Ada', and templates that name properties of
\* Object.prototype
NamedFillCalls ==
    { [fn |-> "fillPromptTemplate",
       template |-> <<"H", "e", "l", "l", "o", " ", "{", "n", "a", "m", "e",
                      "}">>,
       variables |-> <<"n", "a", "m", "e">> :> StringValue(<<"A", "d", "a">>),
       outcome |-> Pending],
      [fn |-> "fillPromptTemplate",
       template |-> <<"{", "c", "o", "n", "s", "t", "r", "u", "c", "t", "o",
                      "r", "}">>,
       variables |-> NoVariables,
       outcome |-> Pending],
      [fn |-> "fillPromptTemplate",
       template |-> <<"{", "a", "}", "{", "t", "o", "S", "t", "r", "i", "n",
                      "g", "}">>,
       variables |-> NoVariables,
       outcome |-> Pending] }

\* the calls explored, with templates and texts of at most n characters
FillCalls(n) ==
    { [fn |-> "fillPromptTemplate", template |-> t, variables |-> v,
       outcome |-> Pending] :
          t \in Strings(TemplateChars, n), v \in VariableSets }

SanitizeCalls(n) ==
    { [fn |-> "sanitizeInput", input |-> s, outcome |-> Pending] :
          s \in Texts(n) }

PromptTemplates(n) ==
    { [template |-> t] : t \in Strings(TemplateChars, n) }
        \cup { [template |-> t, systemPrompt |-> s] :
                 t \in Strings(TemplateChars, n),
                 s \in {<<>>, <<"a">>, <<"{", "b", "}">>} }

CreateCalls(n) ==
    { [fn |-> "createPrompt", promptTemplate |-> pt, variables |-> v,
       outcome |-> Pending] :
          pt \in PromptTemplates(n), v \in VariableSets }

LengthCalls(fn, n, lengths) ==
    { [fn |-> fn, prompt |-> p, maxLength |-> k, outcome |-> Pending] :
          p \in Strings(ProseChars, n), k \in lengths }

InitPrompt ==
    /\ variant = "openai"
    /\ maxTokens = 1
    /\ refillRate = 0
    /\ tokens = [cl \in Clients |-> 1]
    /\ lastRefill = [cl \in Clients |-> 0]
    /\ maxRetries = 1
    /\ calls = [c \in Calls |-> IdleCall]
    /\ tryCount = 0
    /\ recording = FALSE
    /\ hist = InitHist(0)
    /\ requests = {DefaultRequest}
    /\ server = RunningServer
    /\ tools = [c \in Calls |-> IdleTool]
    /\ \/ utilCall \in FillCalls(MaxTemplateLen)
       \/ utilCall \in NamedFillCalls
       \/ utilCall \in SanitizeCalls(MaxTextLen)
       \/ utilCall \in CreateCalls(3)
       \/ utilCall \in LengthCalls("validatePrompt", 2, 0..3)
       \/ utilCall \in LengthCalls("truncatePrompt", MaxTextLen,
                                    0..(MaxTextLen - 1))

CallFillPromptTemplate ==
    /\ utilCall.fn = "fillPromptTemplate" /\ utilCall.outcome = Pending
    /\ utilCall' = [utilCall EXCEPT !.outcome =
                       FillPromptTemplate(utilCall.template,
                                          utilCall.variables)]
    /\ UNCHANGED apiVars

CallSanitizeInput ==
    /\ utilCall.fn = "sanitizeInput" /\ utilCall.outcome = Pending
    /\ utilCall' = [utilCall EXCEPT !.outcome =
                       Returned(SanitizeInput(utilCall.input))]
    /\ UNCHANGED apiVars

CallCreatePrompt ==
    /\ utilCall.fn = "createPrompt" /\ utilCall.outcome = Pending
    /\ utilCall' = [utilCall EXCEPT !.outcome =
                       CreatePrompt(utilCall.promptTemplate,
                                    utilCall.variables)]
    /\ UNCHANGED apiVars

CallValidatePrompt ==
    /\ utilCall.fn = "validatePrompt" /\ utilCall.outcome = Pending
    /\ utilCall' = [utilCall EXCEPT !.outcome =
                       [kind |-> "return",
                        value |-> ValidatePrompt(utilCall.prompt,
                                                 utilCall.maxLength)]]
    /\ UNCHANGED apiVars

CallTruncatePrompt ==
    /\ utilCall.fn = "truncatePrompt" /\ utilCall.outcome = Pending
    /\ utilCall' = [utilCall EXCEPT !.outcome =
                       Returned(TruncatePrompt(utilCall.prompt,
                                               utilCall.maxLength))]
    /\ UNCHANGED apiVars

NextPrompt ==
    \/ CallFillPromptTemplate
    \/ CallSanitizeInput
    \/ CallCreatePrompt
    \/ CallValidatePrompt
    \/ CallTruncatePrompt

SpecPrompt == InitPrompt /\ [][NextPrompt]_vars

HasReturned(fn) ==
    utilCall.fn = fn /\ utilCall.outcome.kind = "return"

---------------------------------------------------------------------------
(* Claims about the functions of utils/prompt.ts *)

\* the distinct placeholder names of template that variables has no entry
\* of its own for, in the order of their first occurrence
NamesWithoutEntry(template, variables) ==
    SelectSeq(RequiredVars(PlaceholderNames(template)),
              LAMBDA v : v \notin DOMAIN variables)

\* C21: if any placeholder name in the template has no entry in variables,
\* fillPromptTemplate fails with an error that lists every distinct missing
\* name, and returns no text.
C21_MissingVariableFailure ==
    (utilCall.fn = "fillPromptTemplate" /\ utilCall.outcome # Pending
        /\ Len(NamesWithoutEntry(utilCall.template, utilCall.variables)) > 0)
    => utilCall.outcome =
           Thrown(MissingPrefix
                      \o Join(NamesWithoutEntry(utilCall.template,
                                                utilCall.variables),
                              <<",", " ">>))

\* the template with every placeholder replaced by the string form of the
\* value variables holds for its name, assembled placeholder by placeholder:
\* the text up to and including the k-th placeholder
ExpectedUpTo(template, variables, k) ==
    LET placeholders == Placeholders(template, 1)
        upTo[n \in 0..k] ==
            IF n = 0
            THEN <<>>
            ELSE upTo[n - 1]
                     \o SubSeq(template,
                               (IF n = 1 THEN 0 ELSE placeholders[n - 1][2])
                                   + 1,
                               placeholders[n][1] - 1)
                     \o StringOf(variables[SubSeq(template,
                                                  placeholders[n][1] + 1,
                                                  placeholders[n][2] - 1)])
    IN upTo[k]

ExpectedText(template, variables) ==
    LET placeholders == Placeholders(template, 1)
        n == Len(placeholders)
    IN ExpectedUpTo(template, variables, n)
           \o SubSeq(template,
                     (IF n = 0 THEN 0 ELSE placeholders[n][2]) + 1,
                     Len(template))

\* C22: when every placeholder has a value, fillPromptTemplate returns the
\* template with every occurrence of every {name} replaced by the string
\* form of its value, all other text unchanged, extra variables ignored and
\* the inserted values not scanned again for placeholders.
C22_Substitution ==
    (utilCall.fn = "fillPromptTemplate" /\ utilCall.outcome # Pending
        /\ Len(NamesWithoutEntry(utilCall.template, utilCall.variables)) = 0)
    => utilCall.outcome =
           Returned(ExpectedText(utilCall.template, utilCall.variables))

\* '{a}{a}' with a = '{b}' and b given has become '{b}{b}'
C22_Witness ==
    /\ utilCall.fn = "fillPromptTemplate"
    /\ utilCall.template = <<"{", "a", "}", "{", "a", "}">>
    /\ <<"b">> \in DOMAIN utilCall.variables
    /\ utilCall.outcome = Returned(<<"{", "b", "}", "{", "b", "}">>)

\* C23: sanitizeInput is idempotent: sanitizing what it returned gives the
\* same text again.
C23_SanitizeIdempotent ==
    HasReturned("sanitizeInput") =>
        SanitizeInput(utilCall.outcome.text) = utilCall.outcome.text

\* C24: what sanitizeInput returns is placeholder-free: used as a template
\* with no variables, fillPromptTemplate requires no variable and returns it
\* unchanged.
C24_SanitizedIsPlaceholderFree ==
    HasReturned("sanitizeInput") =>
        FillPromptTemplate(utilCall.outcome.text, NoVariables)
            = Returned(utilCall.outcome.text)

\* whether s[1..n] is followed in s by the end of a word: by a space
EndsWord(s, n) == n < Len(s) /\ s[n + 1] = " "

\* C25: a prompt within maxLength is returned unchanged; of a longer one,
\* truncatePrompt returns the prefix that ends at the last '.', '!' or '?'
\* within the first maxLength characters and, only if there is none, the
\* prefix that ends at the last complete word, followed by '...'.
C25_TruncationBoundary ==
    HasReturned("truncatePrompt") =>
        LET prompt == utilCall.prompt
            maxLength == utilCall.maxLength
            text == utilCall.outcome.text
            ends == { j \in 1..maxLength : prompt[j] \in SentenceEnds }
            words == { n \in 0..(maxLength - 1) : EndsWord(prompt, n) }
        IN IF Len(prompt) <= maxLength
           THEN text = prompt
           ELSE IF ends # {}
                THEN \E j \in ends :
                        /\ \A k \in ends : k <= j
                        /\ text = SubSeq(prompt, 1, j)
                ELSE words # {} =>
                        \E n \in words :
                            /\ \A k \in words : k <= n
                            /\ text = SubSeq(prompt, 1, n)
                                          \o <<".", ".", ".">>

---------------------------------------------------------------------------
(* Claims about a tool invocation and the client *)

\* C27: one token per tool invocation: the handler's checkRateLimit and the
\* makeApiCall that follows take one token between them, so with exactly one
\* token available (capacity 1, no refill) an invocation that reaches
\* makeApiCall is admitted there.
C27_OneTokenPerInvocation ==
    (maxTokens = 1 /\ refillRate = 0) =>
        \A c \in Calls :
            (tools[c].called /\ calls[c].pc # "idle") =>
                calls[c].admitted = "yes"

\* whether the text needle occurs in the text hay
Contains(hay, needle) ==
    \E i \in 0..(Len(hay) - Len(needle)) :
        SubSeq(hay, i + 1, i + Len(needle)) = needle

\* C30: the system prompt is sent once: in the message list built for a tool
\* invocation the text of the system message does not occur in the user
\* message.
C30_SystemPromptSentOnce ==
    \A c \in Calls :
        (tools[c].called /\ Len(calls[c].messages) > 0) =>
            ~Contains(calls[c].messages[Len(calls[c].messages)].content,
                      calls[c].messages[1].content)

\* C31: retries do not pass through the limiter: the steps of the attempt
\* loop of a makeApiCall (an attempt settling, a backoff timer firing) leave
\* tokens and lastRefill as they are, so a call with k attempts has taken the
\* one token of its admission.
C31_RetriesBypassLimiter ==
    [][ \A c \in Calls :
          (calls[c].pc \in {"attempt", "backoff"} /\ calls'[c] # calls[c]) =>
              (tokens' = tokens /\ lastRefill' = lastRefill) ]_vars

\* the only call made so far took three attempts and one token of a bucket
\* that is never refilled
C31_Witness ==
    /\ refillRate = 0 /\ maxTokens = 1 /\ tryCount = 1
    /\ tokens[ClientUnderStudy] = 0
    /\ \E c \in Calls :
          /\ IsDone(c) /\ calls[c].admitted = "yes" /\ calls[c].netCalls = 3
          /\ \A d \in Calls \ {c} : calls[d].pc = "idle"

\* C33: truncatePrompt fits the limit: what truncatePrompt(prompt, maxLength)
\* returns is no longer than maxLength, so validatePrompt accepts it.
C33_TruncatedFitsLimit ==
    HasReturned("truncatePrompt") =>
        ValidatePrompt(utilCall.outcome.text, utilCall.maxLength)

\* the arguments a tool requires to be strings
RequiredStrings(tool) ==
    CASE tool = "second_opinion" -> {"user_request"}
      [] tool = "code_review" -> {"language"}
      [] tool = "design_critique" -> {"design_document", "design_type"}
      [] tool = "writing_feedback" -> {"text", "writing_type"}
      [] OTHER -> {"concept"}

\* arguments that are no object, lack a required string or hold another type
\* in its place; for code_review also neither file_path nor code_snippet,
\* and a number where the path or the snippet is looked for (the number 0
\* counts as no path and no snippet)
InvalidArguments(tool, args) ==
    \/ ~args.isObject
    \/ \E field \in RequiredStrings(tool) :
          args.fields[field] \notin {"empty", "string", "constructor"}
    \/ /\ tool = "code_review"
       /\ \/ args.fields.file_path = "number"
          \/ /\ args.fields.file_path \in {"absent", "undefined", "zero"}
             /\ args.fields.code_snippet \in
                   {"absent", "empty", "number", "zero"}

\* C34: invalid invocations make no model call: a handler invoked with
\* invalid arguments, or whose file could not be read, never calls
\* makeApiCall and does not throw, and once it has returned its result has
\* isError = true, as has that of every handler that has returned without
\* calling makeApiCall.
C34_InvalidMakesNoCall ==
    \A c \in Calls :
        LET slot == tools[c]
            invalid == \/ InvalidArguments(slot.tool, slot.args)
                       \/ slot.read = "failed"
        IN (slot.via = "direct" /\ slot.checked = "yes") =>
              /\ invalid => (~slot.called /\ slot.pc # "threw")
              /\ (slot.pc = "returned" /\ (invalid \/ ~slot.called)) =>
                     ( /\ "isError" \in DOMAIN slot.response[1]
                       /\ slot.response[1].isError )
              /\ slot.read = "failed" => calls[c].pc = "idle"

\* code_review has returned an error for a file that was there when the
\* path was validated and could not be read, without a call
C34_Witness ==
    /\ tools["c1"].tool = "code_review" /\ tools["c1"].pc = "returned"
    /\ tools["c1"].checked = "yes"
    /\ tools["c1"].args.isObject
    /\ tools["c1"].args.fields.file_path = "string"
    /\ tools["c1"].read = "failed"
    /\ tools["c1"].response =
          <<ErrorResponse("Error reading file: Failed to read file: ENOENT: no such file or directory, open 'a'")>>
    /\ ~tools["c1"].called
    /\ calls["c1"].pc = "idle"

\* C35: rejected invocations cost nothing: the invocation of a handler with
\* invalid arguments leaves the token count of a bucket that is not refilled
\* as it was.
C35_RejectedCostsNothing ==
    [][ \A c \in Calls :
          ( /\ refillRate = 0
            /\ IsFree(tools[c]) /\ tools'[c] # tools[c]
            /\ tools'[c].via = "direct"
            /\ InvalidArguments(tools'[c].tool, tools'[c].args) ) =>
              tokens' = tokens ]_vars

---------------------------------------------------------------------------
(* The client where every network attempt settles and every backoff timer *)
(* fires: the transport answers or fails within its timeout, and the      *)
(* event loop runs a timer that is due.                                   *)

InitLive ==
    /\ variant \in Variants
    /\ \E cfg \in LimiterConfigs :
         /\ maxTokens = cfg[1]
         /\ refillRate = cfg[2]
         /\ tokens = [cl \in Clients |-> cfg[1]]
    /\ lastRefill = [cl \in Clients |-> 0]
    /\ maxRetries \in 1..MaxRetriesBound
    /\ calls = [c \in Calls |-> IdleCall]
    /\ tryCount = 0
    /\ recording = FALSE
    /\ hist = InitHist(0)
    /\ requests = {DefaultRequest}
    /\ server = RunningServer
    /\ tools = [c \in Calls |-> IdleTool]
    /\ utilCall = NoUtilCall

\* one call after the other
NextLive ==
    \/ MakeApiCall("c1", ClientUnderStudy)
    \/ Respond("c1")
    \/ TimerFire("c1")

SpecLive ==
    /\ InitLive
    /\ [][NextLive]_vars
    /\ WF_vars(Respond("c1")) /\ WF_vars(TimerFire("c1"))

\* C36: call termination: where every attempt settles and every timer
\* fires, a makeApiCall that is under way eventually returns a result,
\* having made no more than maxRetries attempts.
C36_CallTermination ==
    \A c \in Calls :
        (calls[c].pc \in {"attempt", "backoff"})
            ~> (calls[c].pc = "done" /\ calls[c].netCalls <= maxRetries)

\* a call has returned after maxRetries attempts that were all answered 429,
\* each followed by its backoff wait
C36_Witness ==
    \E c \in Calls :
        /\ IsDone(c) /\ maxRetries = 3
        /\ calls[c].netCalls = 3 /\ calls[c].n429 = 3
        /\ Len(calls[c].delays) = 3
---------------------------------------------------------------------------
(* The client under every configuration a loader accepts *)

InitConfig ==
    /\ variant \in Variants
    /\ \E cfg \in LimiterConfigs :
         /\ maxTokens = cfg[1]
         /\ refillRate = cfg[2]
         /\ tokens = [cl \in Clients |-> cfg[1]]
    /\ lastRefill = [cl \in Clients |-> 0]
    /\ \E loader \in Loaders, env \in Strings(EnvChars, MaxEnvLen) :
         /\ LoaderAccepts(loader, LoadMaxRetries(env))
         /\ ~NumberLess(MaxRetriesBound, LoadMaxRetries(env))
         /\ maxRetries = LoadMaxRetries(env)
    /\ calls = [c \in Calls |-> IdleCall]
    /\ tryCount = 0
    /\ recording = FALSE
    /\ hist = InitHist(0)
    /\ requests = {DefaultRequest}
    /\ server = RunningServer
    /\ tools = [c \in Calls |-> IdleTool]
    /\ utilCall = NoUtilCall

SpecConfig == InitConfig /\ [][NextLive]_vars

\* C32: a makeApiCall that passed admission and has returned has made at
\* least one network attempt, whatever maxRetries the loader accepted.
C32_AtLeastOneAttempt ==
    \A c \in Calls :
        (IsDone(c) /\ calls[c].admitted = "yes") => calls[c].netCalls >= 1
\* C37: however the signals and the error events follow one another,
\* this.server.close() is invoked at most once and isShuttingDown, once
\* true, stays true.
C37_ShutdownIdempotent ==
    [][ /\ server'.closes <= 1
        /\ server.isShuttingDown => server'.isShuttingDown ]_vars

\* a second event arrived while the first stop() was awaiting close()
C37_Witness ==
    /\ server.phase = "exited" /\ ~server.closed
    /\ server.isShuttingDown /\ server.closes = 1

\* C38: on shutdown the process has not exited before the close() started
\* by stop() has settled.
C38_ExitWaitsForClose ==
    (server.phase = "exited" /\ server.isShuttingDown) => server.closed
\* the message of the InvalidParams error a request handler answers the
\* arguments of a tool with
C39_InvalidParamsText(dispatcher, name, args) ==
    CASE name = "second_opinion" ->
           IF /\ dispatcher = "part_002"
              /\ args.isObject
              /\ args.fields.user_request \notin {"absent", "undefined"}
           THEN "Parameter 'user_request' must be a string"
           ELSE "Missing required parameter: user_request"
      [] name = "code_review" -> "Invalid parameters for code review"
      [] name = "design_critique" -> "Invalid parameters for design critique"
      [] name = "writing_feedback" -> "Invalid parameters for writing feedback"
      [] OTHER -> "Invalid parameters for brainstorm enhancements"

\* C39: a tool-call request that names no tool of the server is rejected
\* with MethodNotFound, and one whose arguments are no object or lack a
\* required string with InvalidParams, in both cases with the message of
\* that error and without the handler having run, and these two errors
\* are never changed or raised after a handler ran; what fails after the
\* dispatch (the conversion of the response of a handler in server.ts) is
\* replaced by an InternalError whose message names only the tool.
C39_DispatcherErrors ==
    \A c \in Calls :
        (tools[c].via = "server" /\ ~tools[c].afterStop) =>
            LET name == tools[c].tool
                args == tools[c].args
                known == IF server.dispatcher = "part_002"
                         THEN name = "second_opinion"
                         ELSE name \in {"second_opinion", "code_review",
                                        "design_critique", "writing_feedback",
                                        "brainstorm_enhancements"}
                invalid == \/ ~args.isObject
                           \/ \E field \in RequiredStrings(name) :
                                 args.fields[field] \notin
                                    {"empty", "string", "constructor"}
                ran == tools[c].checked # "none"
            IN /\ ~known =>
                     /\ tools[c].pc = "rejected"
                     /\ tools[c].code = "MethodNotFound"
                     /\ tools[c].error = "Tool not found: " \o name
                     /\ ~ran /\ ~tools[c].called
               /\ (known /\ invalid) =>
                     /\ tools[c].pc = "rejected"
                     /\ tools[c].code = "InvalidParams"
                     /\ tools[c].error =
                           C39_InvalidParamsText(server.dispatcher, name, args)
                     /\ ~ran /\ ~tools[c].called
               /\ (tools[c].pc = "rejected" /\ tools[c].code # "InternalError") =>
                     /\ ~ran
                     /\ tools[c].code = IF known THEN "InvalidParams"
                                        ELSE "MethodNotFound"
               /\ (tools[c].pc = "rejected" /\ tools[c].code = "InternalError") =>
                     /\ ran
                     /\ tools[c].error =
                           "Internal server error while executing tool " \o name
               /\ (ran /\ IsFree(tools[c])) =>
                     IF server.dispatcher = "server.ts"
                     THEN tools[c].pc = "rejected"
                             /\ tools[c].code = "InternalError"
                     ELSE tools[c].pc = "returned"

\* the request handler of server.ts has answered a request whose handler
\* returned with the InternalError that names the tool, and one for its
\* arguments with InvalidParams
C39_Witness ==
    /\ server.dispatcher = "server.ts"
    /\ tools["c1"].pc = "rejected" /\ tools["c1"].code = "InternalError"
    /\ tools["c1"].tool = "code_review" /\ tools["c1"].called
    /\ tools["c1"].error =
          "Internal server error while executing tool code_review"
    /\ tools["c2"].pc = "rejected" /\ tools["c2"].code = "InvalidParams"
    /\ tools["c2"].tool = "brainstorm_enhancements"
---------------------------------------------------------------------------
(* The prompt of the design_critique handler *)

UpperCaseLetters ==
    <<"A", "B", "C", "D", "E", "F", "G", "H", "I", "J", "K", "L", "M",
      "N", "O", "P", "Q", "R", "S", "T", "U", "V", "W", "X", "Y", "Z">>
LowerCaseLetters ==
    <<"a", "b", "c", "d", "e", "f", "g", "h", "i", "j", "k", "l", "m",
      "n", "o", "p", "q", "r", "s", "t", "u", "v", "w", "x", "y", "z">>

\* s.toLowerCase()
ToLowerCase(s) ==
    [i \in 1..Len(s) |->
        IF \E k \in 1..26 : UpperCaseLetters[k] = s[i]
        THEN LowerCaseLetters[CHOOSE k \in 1..26 : UpperCaseLetters[k] = s[i]]
        ELSE s[i]]

\* DESIGN_TYPE_PROMPTS: of every block the words up to 'design' are kept
DESIGN_TYPE_PROMPTS ==
    <<"w", "e", "b", " ", "U", "I">> :> StringValue(
        <<"A", "n", "a", "l", "y", "z", "e", " ", "t", "h", "i", "s",
          " ", "w", "e", "b", " ", "U", "I", " ", "d", "e", "s", "i",
          "g", "n">>)
    @@ <<"m", "o", "b", "i", "l", "e", " ", "a", "p", "p">> :> StringValue(
        <<"A", "n", "a", "l", "y", "z", "e", " ", "t", "h", "i", "s",
          " ", "m", "o", "b", "i", "l", "e", " ", "a", "p", "p", " ",
          "d", "e", "s", "i", "g", "n">>)
    @@ <<"s", "y", "s", "t", "e", "m", " ", "a", "r", "c", "h", "i", "t",
      "e", "c", "t", "u", "r", "e">> :> StringValue(
        <<"A", "n", "a", "l", "y", "z", "e", " ", "t", "h", "i", "s",
          " ", "s", "y", "s", "t", "e", "m", " ", "a", "r", "c", "h",
          "i", "t", "e", "c", "t", "u", "r", "e", " ", "d", "e", "s",
          "i", "g", "n">>)
    @@ <<"d", "e", "f", "a", "u", "l", "t">> :> StringValue(
        <<"A", "n", "a", "l", "y", "z", "e", " ", "t", "h", "i", "s",
          " ", "d", "e", "s", "i", "g", "n", " ", "f", "o", "c", "u",
          "s", "i", "n", "g">>)

\* the design types named by the description of design_type in the tool's
\* inputSchema
AdvertisedDesignTypes ==
    { <<"w", "e", "b", " ", "U", "I">>,
      <<"s", "y", "s", "t", "e", "m", " ", "a", "r", "c", "h", "i",
        "t", "e", "c", "t", "u", "r", "e">>,
      <<"m", "o", "b", "i", "l", "e", " ", "a", "p", "p">> }

\* BASE_PROMPT_TEMPLATE, its template cut down to its three placeholders
BASE_PROMPT_TEMPLATE ==
    [template |->
        <<"{", "d", "e", "s", "i", "g", "n", "_", "t", "y", "p", "e",
          "}", "\n", "{", "d", "e", "s", "i", "g", "n", "_", "d", "o",
          "c", "u", "m", "e", "n", "t", "}", "\n", "{", "t", "y", "p",
          "e", "_", "s", "p", "e", "c", "i", "f", "i", "c", "_", "p",
          "r", "o", "m", "p", "t", "s", "}">>,
     systemPrompt |-> SYSTEM_PROMPT]

\* value || fallback
IsTruthyValue(value) ==
    CASE value.type = "undefined" -> FALSE
      [] value.type = "string" -> Len(value.text) > 0
      [] OTHER -> TRUE

\* the first index at which pattern occurs in s, 0 when it does not
IndexOf(s, pattern) ==
    IF Contains(s, pattern)
    THEN CHOOSE i \in 1..(Len(s) - Len(pattern) + 1) :
            /\ SubSeq(s, i, i + Len(pattern) - 1) = pattern
            /\ \A j \in 1..(i - 1) : SubSeq(s, j, j + Len(pattern) - 1) # pattern
    ELSE 0

\* s.replace(pattern, replacement) with a string pattern: the first
\* occurrence is replaced. A replacement that is a function is called with
\* the match: Object(match) converts back to the match; a replacement that
\* is a string holds no '$' here
StringReplace(s, pattern, replacement) ==
    IF IndexOf(s, pattern) = 0
    THEN s
    ELSE SubSeq(s, 1, IndexOf(s, pattern) - 1)
            \o (IF replacement.type = "function"
                      /\ replacement.name = <<"O", "b", "j", "e", "c", "t">>
                THEN pattern
                ELSE StringOf(replacement))
            \o SubSeq(s, IndexOf(s, pattern) + Len(pattern), Len(s))

\* the handler of design_critique from the sanitizing of its arguments to
\* createPrompt: the prompt it passes to makeApiCall, or what createPrompt
\* throws
DesignCritiquePrompt(design_type, design_document) ==
    LET sanitizedDocument == SanitizeInput(design_document)
        sanitizedType == SanitizeInput(ToLowerCase(design_type))
        found == GetProperty(DESIGN_TYPE_PROMPTS, sanitizedType)
        typePrompts == IF IsTruthyValue(found)
                       THEN found
                       ELSE DESIGN_TYPE_PROMPTS[<<"d", "e", "f", "a", "u", "l", "t">>]
    IN CreatePrompt(
          [BASE_PROMPT_TEMPLATE EXCEPT !.template =
              StringReplace(@, <<"{", "t", "y", "p", "e", "_", "s", "p", "e", "c",
                  "i", "f", "i", "c", "_", "p", "r", "o", "m", "p",
                  "t", "s", "}">>,
                            typePrompts)],
          <<"d", "e", "s", "i", "g", "n", "_", "t", "y", "p", "e">> :> StringValue(sanitizedType)
          @@ <<"d", "e", "s", "i", "g", "n", "_", "d", "o", "c", "u", "m",
            "e", "n", "t">> :> StringValue(sanitizedDocument))

\* longest design_document explored, in characters
MaxDocumentLen == 2

\* the design types explored: the advertised ones, other spellings of them,
\* an unlisted one, and names DESIGN_TYPE_PROMPTS has or inherits
DesignTypes ==
    AdvertisedDesignTypes
        \cup { <<"M", "o", "b", "i", "l", "e", " ", "A", "p", "p">>,
               <<" ", "w", "e", "b", " ", "u", "i">>,
               <<"l", "o", "g", "o">>,
               <<"d", "e", "f", "a", "u", "l", "t">>,
               <<"c", "o", "n", "s", "t", "r", "u", "c", "t", "o", "r">> }

DesignCalls(n) ==
    { [fn |-> "designCritique", design_type |-> t, design_document |-> d] :
          t \in DesignTypes, d \in Strings({"a", "{", " "}, n) }

\* the characters of a text in one string
RECURSIVE TextOf(_)
TextOf(text) ==
    IF text = <<>> THEN "" ELSE Head(text) \o TextOf(Tail(text))

\* the class of a string argument
ClassOfText(text) ==
    IF text = <<>>
    THEN "empty"
    ELSE IF text = <<"c", "o", "n", "s", "t", "r", "u", "c", "t", "o", "r">>
    THEN "constructor"
    ELSE "string"

\* the handler of design_critique after checkRateLimit() returned ok, its
\* arguments two strings: what it does next
AfterCheckRateLimitCritique(design_type, design_document, ok) ==
    LET prompt == DesignCritiquePrompt(design_type, design_document)
    IN IF ~ok
       THEN [kind |-> "return", validated |-> FALSE, composed |-> FALSE,
             response |-> RateLimitResponse]
       ELSE IF prompt.kind = "throw"
       THEN [validated |-> TRUE, composed |-> TRUE]
               @@ HandlerCatch("design_critique", TextOf(prompt.text))
       ELSE [kind |-> "call", validated |-> TRUE, composed |-> TRUE]

\* the limiters explored under the design_critique handler: one token or
\* three, never refilled
CritiqueLimiterConfigs == {<<1, 0>>, <<3, 0>>}

InitCritique ==
    /\ variant = "openai"
    /\ \E cfg \in CritiqueLimiterConfigs :
         /\ maxTokens = cfg[1]
         /\ refillRate = cfg[2]
         /\ tokens = [cl \in Clients |-> cfg[1]]
    /\ lastRefill = [cl \in Clients |-> 0]
    /\ maxRetries = 1
    /\ calls = [c \in Calls |-> IdleCall]
    /\ tryCount = 0
    /\ recording = FALSE
    /\ hist = InitHist(0)
    /\ requests = {DefaultRequest}
    /\ server = RunningServer
    /\ tools = [c \in Calls |-> IdleTool]
    /\ utilCall \in DesignCalls(MaxDocumentLen)

\* handler({design_type, design_document}) of design_critique with the two
\* strings of utilCall, from its start to its first await or its return
InvokeDesignCritique(c) ==
    /\ Alive
    /\ IsFree(tools[c])
    /\ utilCall.fn = "designCritique"
    /\ RunHandler(c, "design_critique",
                  [isObject |-> TRUE,
                   fields |-> [design_document |->
                                  ClassOfText(utilCall.design_document),
                               design_type |->
                                  ClassOfText(utilCall.design_type)]],
                  "direct",
                  AfterCheckRateLimitCritique(utilCall.design_type,
                                              utilCall.design_document, FALSE),
                  AfterCheckRateLimitCritique(utilCall.design_type,
                                              utilCall.design_document, TRUE),
                  [prompt |-> DesignCritiquePrompt(
                                 utilCall.design_type,
                                 utilCall.design_document).text,
                   systemPrompt |-> SYSTEM_PROMPT])
    /\ UNCHANGED <<fixedVars, server>>

NextCritique ==
    \/ InvokeDesignCritique("c1")
    \/ HandlerResumes("c1")
    \/ Respond("c1")
    \/ TimerFire("c1")

SpecCritique == InitCritique /\ [][NextCritique]_vars

\* C40: for each advertised design type the prompt the handler passes to
\* makeApiCall holds that type's guidance block, and the default block only
\* goes to types that are not advertised.
C40_GuidanceSelection ==
    (tools["c1"].pc = "awaiting" /\ utilCall.fn = "designCritique") =>
        /\ utilCall.design_type \in AdvertisedDesignTypes =>
              Contains(calls["c1"].request.prompt,
                       DESIGN_TYPE_PROMPTS[utilCall.design_type].text)
        /\ Contains(calls["c1"].request.prompt,
                    DESIGN_TYPE_PROMPTS[<<"d", "e", "f", "a", "u", "l", "t">>].text)
              => utilCall.design_type \notin AdvertisedDesignTypes

====
